---- MODULE Spec2Model ----
(***************************************************************************)
(* Buffer-lifecycle and queue-matching protocol of the V4L2 layer:         *)
(*   - V4L2Util   (src/src/common/v4l2_utils.cpp)   buffer groups          *)
(*   - V4L2Codec  (src/src/codecs/v4l2/v4l2_codec.cpp)  M2M codec pipeline *)
(*   - V4L2Capturer (src/src/capturer/v4l2_capturer.cpp) capture driver    *)
(* Two specifications share the codec actions:                             *)
(*   Spec          a codec pipeline driven by a client thread              *)
(*   SpecCapturer  a capture driver feeding its hardware decoder           *)
(***************************************************************************)
EXTENDS Integers, Sequences, FiniteSets, TLC

(* ------------------------------- bounds -------------------------------- *)
OutCount == 2       \* buffer_num passed to SetupOutputBuffer
CapCount == 2       \* buffer_num passed to SetupCaptureBuffer
MaxSubmit == 3      \* EmplaceBuffer calls made by the client thread
MaxFault == 1       \* device deviations: failed ioctls, adjusted grants/geometry
MaxEvents == 1      \* events the device raises
MaxFrames == 3      \* frames the camera produces

(* ------------------------------ constants ------------------------------ *)
Memories == {"MMAP", "DMABUF"}
\* an enum member that no constructor initialises holds an arbitrary value
UninitTypes == {"NONE", "OUTPUT_MPLANE", "CAPTURE_MPLANE"}
ReqGeom == "WxH"        \* the geometry the caller asks for
AdjGeom == "W'xH'"      \* a geometry the device substitutes
ZeroGeom == "0x0"       \* width = 0, height = 0
buffer_count_ == 4      \* V4L2Capturer: buffer_count_(4)
Formats == {"H264", "MJPEG", "YUV420"}

VARIABLES
    alive,                  \* the process has not exited / terminated
    fd_,                    \* codec: device opened
    output_, capture_,      \* codec: V4L2BufferGroup output_, capture_
    width_,                 \* codec: width_/height_ of result frames
    abort_,                 \* codec: abort flag
    started,                \* codec: worker_ exists (Start() ran)
    subscribed,             \* codec: SubscribeEvent succeeded
    outSetup, capSetup,     \* return value of SetupOutputBuffer / SetupCaptureBuffer
    output_buffer_index_,   \* codec: free pool of output indices (FIFO)
    capturing_tasks_,       \* codec: pending callbacks (FIFO)
    epc, eIdx, eTask,       \* EmplaceBuffer: position, local index, callback
    wpc, wex, wIdx, wFrame,       \* CaptureBuffer: position and locals
    devOut, devCap,         \* M2M device: the two vb2 queues
    events,                 \* M2M device: pending events
    nextMarker,             \* history: marker of the next submission
    accepted,               \* history: markers whose output buffer was queued
    invoked,                \* history: <<callback marker, frame's submission>>
    rejected,               \* history: markers refused for lack of a free buffer
    faults,                 \* history: device deviations so far
    early,                  \* history: a work item completed before its push
    lastAlloc,              \* history: the last AllocateBuffer call
    nEvents,                \* history: events raised
    handled,                \* history: how the last source-change handler ended
    published,              \* frames delivered to subscribers
    hw_accel_, format_,     \* capturer: configuration
    cam_fd_,                \* capturer: Initialize() ran
    cam_capture_,           \* capturer: V4L2BufferGroup capture_
    has_first_keyframe_,    \* capturer: has_first_keyframe_
    frame_buffer_,          \* capturer: the retained last frame (NoFrame: null)
    decoder_,               \* capturer: the decoder exists
    cpc, cBuffer,           \* CaptureImage: position, local `buffer`
    camQ,                   \* camera device: its vb2 queue
    nFrames,                \* camera device: frames produced
    seen,                   \* history: buffers the key-frame rule judged
    requeued,               \* history: timestamps of buffers queued again
    staleReads,             \* history: frames read after their buffer was queued again
    dpc,                    \* ~V4L2Codec: the last step it completed
    cdpc,                   \* ~V4L2Capturer: the last step it completed
    ctrlFailed,             \* history: kinds of control call that failed in Initialize
    issued,                 \* history: the last V4L2Util call and its device-control calls
    fbQueued, fbMem,        \* a buffer descriptor: queued to the device; its mapped bytes
    fbFrame,                \* the V4L2FrameBuffer created from the descriptor
    fbClone,                \* the result of fbFrame->Clone()
    fbCloned,               \* history: what fbFrame exposed when it was cloned
    fbOwned,                \* the V4L2FrameBuffer created with a size, if one was (<<>>: none)
    fbCall,                 \* history: the last Clone() / MutableData() call and its outcome
    mpCam,                  \* planes: the capture driver's group (type, num_planes, buffers)
    mpCodec,                \* planes: num_planes of the codec's output_ and capture_
    mpFrame,                \* planes: descriptor of the frame the capture driver published
    mpReport,               \* history: what the device reported in the last camera dequeue
    dqReq,                  \* history: the last dequeue request (declared / provided planes)
    waits,                  \* history: CaptureImage calls that returned after select()
    initReq,                \* history: the last InitBuffer call (requested type, capabilities)
    controls_,              \* libcamera capturer: controls_ (0: control not in the list)
    is_controls_updated_,   \* libcamera capturer: is_controls_updated_
    requests_,              \* libcamera capturer: the requests, where each is and its controls
    rcpc, rcReq,            \* RequestComplete: position, the request it was called with
    nSets,                  \* history: SetControls calls made
    merged,                 \* history: the control list of the last merge
    uart_fd_,               \* UART controller: fd_ (-1: none)
    connected_,             \* UART controller: connected_
    seq_,                   \* UART controller: seq_
    mutex_,                 \* UART controller: the thread holding mutex_, or "free"
    uinit,                  \* UART controller: Create() has returned
    uport,                  \* the serial port's descriptor: never opened, open, closed
    upc, ucmd,              \* per thread: position in SendCommand / Stop, the command
    uafter,                 \* history, per thread: its call began after a Stop had returned
    usaw,                   \* history: connected_ as the running Stop read it
    nSends, stops,          \* history: SendCommand calls made, Stop calls returned
    written                 \* history: the write() calls made

codecVars == <<alive, fd_, output_, capture_, width_, abort_, started, subscribed,
               outSetup, capSetup, output_buffer_index_, capturing_tasks_,
               epc, eIdx, eTask, wpc, wex, wIdx, wFrame, devOut, devCap,
               events, nextMarker, accepted, invoked, rejected, faults, early,
               lastAlloc, nEvents, handled, published, dpc>>

capturerVars == <<hw_accel_, format_, cam_fd_, cam_capture_, has_first_keyframe_,
                  frame_buffer_, decoder_, cpc, cBuffer, camQ, nFrames, seen,
                  requeued, staleReads, cdpc, ctrlFailed>>

frameVars == <<fbQueued, fbMem, fbFrame, fbClone, fbCloned, fbOwned, fbCall>>

libcameraVars == <<controls_, is_controls_updated_, requests_, rcpc, rcReq, nSets, merged>>

planeVars == <<mpCam, mpCodec, mpFrame, mpReport, dqReq>>

uartVars == <<uart_fd_, connected_, seq_, mutex_, uinit, uport, upc, ucmd, uafter,
              usaw, nSends, stops, written>>

vars == <<codecVars, capturerVars, issued, frameVars, planeVars, waits, initReq,
          libcameraVars, uartVars>>

(* ------------------------------ helpers -------------------------------- *)
Range(s) == {s[i] : i \in 1..Len(s)}
B2N(b) == IF b THEN 1 ELSE 0
IsPrefix(s, t) == Len(s) <= Len(t) /\ \A i \in 1..Len(s) : s[i] = t[i]
IsMultiplanar(type) == type \in {"CAPTURE_MPLANE", "OUTPUT_MPLANE"}
NoFrame == [src |-> 0, idx |-> 0, timestamp_ |-> 0, buffer_ |-> [timestamp |-> 0]]
NoTask == [m |-> 0, kind |-> "none", ts |-> 0]
NoBuffer == [idx |-> 0, ts |-> 0, key |-> FALSE]

\* a V4L2BufferGroup as declared: fd -1, no planes, no buffers
NewGroup(type, memory) ==
    [fd |-> -1, type |-> type, memory |-> memory, has_dmafd |-> FALSE,
     num_planes |-> 0, num_buffers |-> 0, size |-> 0,
     mapped |-> {}, exported |-> {}, closed |-> {}, reclosed |-> {}]
\* a vb2 queue of a device: buffers granted, streaming, queued, done
NewQueue == [granted |-> 0, streamOn |-> FALSE, queued |-> <<>>, done |-> <<>>,
             geom |-> "unset"]

\* ThreadSafeQueue<T>::push / pop: strictly append / pop-front
QPush(q, x) == Append(q, x)
QFront(q) == Head(q)
QPop(q) == Tail(q)

(* ------------------------- V4L2Util operations ------------------------- *)

\* V4L2Util::InitBuffer: a failed capability query leaves the group as it was
InitBuffer(g, type, memory, has_dmafd, capOk) ==
    IF ~capOk THEN [ok |-> FALSE, g |-> g]
    ELSE [ok |-> TRUE,
          g |-> [g EXCEPT !.fd = 1, !.type = type, !.memory = memory,
                          !.has_dmafd = has_dmafd]]

\* a variant of SetFormat that accepts the geometry the device returns
SetFormatLenient(g, geom, fmtOk, devGeom) ==
    IF ~fmtOk THEN [res |-> "false", g |-> g, dev |-> "unset"]
    ELSE [res |-> "true", g |-> [g EXCEPT !.num_planes = 1], dev |-> devGeom]
\* V4L2Util::SetFormat: width/height are applied only when both are > 0; the
\* geometry the device returns is compared with the arguments as given.
\*   dev  the geometry a successful VIDIOC_S_FMT left in the device
SetFormat(g, geom, fmtOk, devGeom) ==
    IF ~fmtOk THEN [res |-> "false", g |-> g, dev |-> "unset"]
    ELSE LET g1 == [g EXCEPT !.num_planes = 1]
         IN  IF devGeom # geom THEN [res |-> "throw", g |-> g1, dev |-> devGeom]
             ELSE [res |-> "true", g |-> g1, dev |-> devGeom]
\* VIDIOC_S_FMT's effect on the queue it names
SetQueueFormat(q, dev) == IF dev = "unset" THEN q ELSE [q EXCEPT !.geom = dev]

\* a variant of MMap that goes on after a failure and reports success
MMapLenient(g, granted, failAt) ==
    LET stop == IF granted < failAt THEN granted ELSE failAt
        k == IF stop < g.num_buffers THEN stop ELSE g.num_buffers
    IN  [ok |-> TRUE,
         g |-> [g EXCEPT !.mapped = 0..(g.num_buffers - 1) \ {k},
                         !.exported = IF g.has_dmafd THEN 0..(g.num_buffers - 1) \ {k}
                                      ELSE g.exported]]
\* V4L2Util::MMap: buffers are queried, exported and mapped in index order; the
\* first failure returns false and leaves the earlier buffers mapped.
\* VIDIOC_QUERYBUF fails for an index the device did not grant.
MMap(g, granted, failAt) ==
    LET stop == IF granted < failAt THEN granted ELSE failAt
        k == IF stop < g.num_buffers THEN stop ELSE g.num_buffers
    IN  [ok |-> k = g.num_buffers,
         g |-> [g EXCEPT !.mapped = 0..(k - 1),
                         !.exported = IF g.has_dmafd THEN 0..(k - 1) ELSE g.exported]]

\* V4L2Util::AllocateBuffer: the count VIDIOC_REQBUFS returns is not read back
AllocateBuffer(g, n, reqOk, granted, failAt) ==
    LET g1 == [g EXCEPT !.num_buffers = n, !.size = n]
    IN  IF ~reqOk THEN [ok |-> FALSE, g |-> g1, granted |-> -1]
        ELSE IF g.memory = "MMAP"
             THEN LET r == MMap(g1, granted, failAt)
                  IN  [ok |-> r.ok, g |-> r.g, granted |-> granted]
             ELSE [ok |-> TRUE, g |-> g1, granted |-> granted]

\* V4L2Util::UnMap: every buffer's dmafd > 0 is closed and kept as it is, every
\* mapped plane is unmapped and its pointer cleared
UnMap(g) == [g EXCEPT !.mapped = {}, !.closed = g.closed \cup g.exported,
                      !.reclosed = g.reclosed \cup (g.closed \cap g.exported)]

\* V4L2Util::DeallocateBuffer
DeallocateBuffer(g, reqOk) ==
    LET g1 == IF g.memory = "MMAP" THEN UnMap(g) ELSE g
    IN  IF ~reqOk THEN [ok |-> FALSE, g |-> g1]
        ELSE [ok |-> TRUE, g |-> [g1 EXCEPT !.fd = 0, !.has_dmafd = FALSE]]

\* VIDIOC_QBUF of buffer idx of group g: the device refuses an index it did
\* not grant, and a DMABUF buffer whose plane fd was never set (AllocateBuffer
\* and the capture paths leave it 0)
QBufAccepted(g, granted, idx) == idx < granted /\ g.memory = "MMAP"

\* V4L2Util::QueueBuffers: queue index 0, 1, ... and stop at the first failure.
\* The result is the number of buffers queued.
QueueBuffers(g, granted, failAt) ==
    LET ok == {i \in 0..(g.num_buffers - 1) :
                 \A j \in 0..i : QBufAccepted(g, granted, j) /\ j < failAt}
    IN  Cardinality(ok)

\* a variant of Indices that counts from 1
IndicesFromOne(k) == [i \in 1..k |-> i]
\* for (int i = 0; i < buffer_num; i++): the indices 0 .. k-1 in order
Indices(k) == [i \in 1..k |-> i - 1]


\* counts VIDIOC_REQBUFS may return for a request of n buffers
Grants(n) == IF n = 0 THEN {0} ELSE (n - 1)..(n + 1)

\* What the device answers during one PrepareBuffer call:
\*   capOk    VIDIOC_QUERYCAP succeeds
\*   fmtOk    VIDIOC_S_FMT succeeds,  devGeom  the geometry it returns
\*   reqOk    VIDIOC_REQBUFS succeeds, granted  the count it returns
\*   failAt   the first buffer whose QUERYBUF / EXPBUF / mmap fails (n: none)
\*   qFailAt  the first buffer whose VIDIOC_QBUF fails (n: none)
NoFaultEnv(n) == [capOk |-> TRUE, fmtOk |-> TRUE, devGeom |-> ReqGeom, reqOk |-> TRUE,
                  granted |-> n, failAt |-> n, qFailAt |-> n]
\* the device deviates from NoFaultEnv in at most one answer per call
SetupEnvs(n) ==
    {NoFaultEnv(n)}
    \cup {[NoFaultEnv(n) EXCEPT !.capOk = FALSE], [NoFaultEnv(n) EXCEPT !.fmtOk = FALSE],
          [NoFaultEnv(n) EXCEPT !.devGeom = AdjGeom],
          [NoFaultEnv(n) EXCEPT !.reqOk = FALSE]}
    \cup {[NoFaultEnv(n) EXCEPT !.granted = k] : k \in Grants(n)}
    \cup {[NoFaultEnv(n) EXCEPT !.failAt = k] : k \in 0..n}
    \cup {[NoFaultEnv(n) EXCEPT !.qFailAt = k] : k \in 0..n}
\* a deviation counts when the call reads the answer
SetupFaults(e, n, type, memory) ==
    B2N(~e.capOk) + B2N(~e.fmtOk) + B2N(e.devGeom # ReqGeom)
    + B2N(~e.reqOk) + B2N(e.granted # n)
    + B2N(e.failAt < n /\ memory = "MMAP")
    + B2N(e.qFailAt < n /\ type = "CAPTURE_MPLANE")
Relevant(e, n, type, memory) ==
    /\ memory # "MMAP" => e.failAt = n
    /\ type # "CAPTURE_MPLANE" => e.qFailAt = n

(* ------------------------------ V4L2Codec ------------------------------ *)

\* V4L2Codec::PrepareBuffer, as a function of the device's answers e:
\*   ret     "true" / "false" / "throw" (SetFormat's runtime_error)
\*   g       the group afterwards
\*   alloc   whether AllocateBuffer was called, and what it returned
\*   granted the count the device reserved (-1: VIDIOC_REQBUFS failed or not reached)
\*   pushed  indices pushed onto output_buffer_index_
\*   queued  capture indices queued to the device
\*   dev     the geometry VIDIOC_S_FMT set in the device ("unset": none)
PrepareBuffer(g, geom, type, memory, n, has_dmafd, e) ==
    LET i == InitBuffer(g, type, memory, has_dmafd, e.capOk)
        f == SetFormat(i.g, geom, e.fmtOk, e.devGeom)
        a == AllocateBuffer(f.g, n, e.reqOk, e.granted, e.failAt)
        k == QueueBuffers(a.g, e.granted, e.qFailAt)
        none == [alloc |-> "none", granted |-> -1, pushed |-> <<>>, queued |-> <<>>]
        r == IF ~i.ok THEN [ret |-> "false", g |-> i.g] @@ none
             ELSE IF f.res # "true" THEN [ret |-> f.res, g |-> f.g] @@ none
             ELSE IF ~a.ok THEN [ret |-> "false", g |-> a.g, alloc |-> "false",
                                 granted |-> a.granted, pushed |-> <<>>, queued |-> <<>>]
             ELSE IF type = "OUTPUT_MPLANE"
                  THEN [ret |-> "true", g |-> a.g, alloc |-> "true", granted |-> a.granted,
                        pushed |-> Indices(n), queued |-> <<>>]
             ELSE IF type = "CAPTURE_MPLANE"
                  THEN [ret |-> IF k = a.g.num_buffers THEN "true" ELSE "false",
                        g |-> a.g, alloc |-> "true", granted |-> a.granted,
                        pushed |-> <<>>, queued |-> Indices(k)]
             ELSE [ret |-> "true", g |-> a.g, alloc |-> "true", granted |-> a.granted,
                   pushed |-> <<>>, queued |-> <<>>]
    IN  r @@ [dev |-> IF i.ok THEN f.dev ELSE "unset"]

\* the record kept of an AllocateBuffer call
AllocRecord(old, n, r) ==
    IF r.alloc = "none" THEN old
    ELSE [requested |-> n, granted |-> r.granted, ok |-> (r.alloc = "true"),
          num_buffers |-> r.g.num_buffers]

\* V4L2Codec::Open
Open ==
    /\ alive /\ ~fd_
    /\ fd_' = TRUE
    /\ UNCHANGED <<alive, output_, capture_, width_, abort_, started,
                   subscribed, outSetup, capSetup, output_buffer_index_,
                   capturing_tasks_, epc, eIdx, eTask, wpc, wex, wIdx, wFrame,
                   devOut, devCap, events, nextMarker, accepted, invoked,
                   rejected, faults, early, lastAlloc, nEvents, handled,
                   published, hw_accel_, format_, cam_fd_, cam_capture_,
                   has_first_keyframe_, frame_buffer_, decoder_, cpc, cBuffer,
                   camQ, nFrames, seen, requeued, staleReads, dpc, cdpc,
                   ctrlFailed, issued, fbQueued, fbMem, fbFrame, fbClone,
                   fbCloned, fbOwned, fbCall, mpCam, mpCodec, mpFrame,
                   mpReport, dqReq, waits, initReq, controls_,
                   is_controls_updated_, requests_, rcpc, rcReq, nSets,
                   merged, uart_fd_, connected_, seq_, mutex_, uinit, uport,
                   upc, ucmd, uafter, usaw, nSends, stops, written>>

\* V4L2Codec::SetupOutputBuffer
SetupOutputBuffer ==
    /\ alive /\ fd_ /\ ~started /\ outSetup = "none"
    /\ \E memory \in Memories, e \in SetupEnvs(OutCount) :
         /\ Relevant(e, OutCount, "OUTPUT_MPLANE", memory)
         /\ faults + SetupFaults(e, OutCount, "OUTPUT_MPLANE", memory) <= MaxFault
         /\ LET r == PrepareBuffer(output_, ReqGeom, "OUTPUT_MPLANE", memory,
                                   OutCount, FALSE, e)
            IN  /\ output_' = r.g
                /\ outSetup' = r.ret
                /\ alive' = (r.ret # "throw")
                /\ output_buffer_index_' = output_buffer_index_ \o r.pushed
                /\ devOut' = [SetQueueFormat(devOut, r.dev) EXCEPT
                                !.granted = IF r.granted >= 0 THEN r.granted ELSE @]
                /\ lastAlloc' = AllocRecord(lastAlloc, OutCount, r)
                /\ faults' = faults + SetupFaults(e, OutCount, "OUTPUT_MPLANE", memory)
    /\ UNCHANGED <<fd_, capture_, width_, abort_, started, subscribed,
                   capSetup, capturing_tasks_, epc, eIdx, eTask, wpc, wex,
                   wIdx, wFrame, devCap, events, nextMarker, accepted,
                   invoked, rejected, early, nEvents, handled, published,
                   hw_accel_, format_, cam_fd_, cam_capture_,
                   has_first_keyframe_, frame_buffer_, decoder_, cpc, cBuffer,
                   camQ, nFrames, seen, requeued, staleReads, dpc, cdpc,
                   ctrlFailed, issued, fbQueued, fbMem, fbFrame, fbClone,
                   fbCloned, fbOwned, fbCall, mpCam, mpCodec, mpFrame,
                   mpReport, dqReq, waits, initReq, controls_,
                   is_controls_updated_, requests_, rcpc, rcReq, nSets,
                   merged, uart_fd_, connected_, seq_, mutex_, uinit, uport,
                   upc, ucmd, uafter, usaw, nSends, stops, written>>

\* V4L2Codec::SetupCaptureBuffer
SetupCaptureBuffer ==
    /\ alive /\ fd_ /\ ~started /\ capSetup = "none"
    /\ \E memory \in Memories, exp_dmafd \in BOOLEAN, e \in SetupEnvs(CapCount) :
         /\ Relevant(e, CapCount, "CAPTURE_MPLANE", memory)
         /\ faults + SetupFaults(e, CapCount, "CAPTURE_MPLANE", memory) <= MaxFault
         /\ LET r == PrepareBuffer(capture_, ReqGeom, "CAPTURE_MPLANE", memory,
                                   CapCount, exp_dmafd, e)
            IN  /\ width_' = ReqGeom
                /\ capture_' = r.g
                /\ capSetup' = r.ret
                /\ alive' = (r.ret # "throw")
                /\ devCap' = [SetQueueFormat(devCap, r.dev) EXCEPT
                                !.granted = IF r.granted >= 0 THEN r.granted ELSE @,
                                !.queued = @ \o r.queued]
                /\ lastAlloc' = AllocRecord(lastAlloc, CapCount, r)
                /\ faults' = faults + SetupFaults(e, CapCount, "CAPTURE_MPLANE", memory)
    /\ UNCHANGED <<fd_, output_, abort_, started, subscribed, outSetup,
                   output_buffer_index_, capturing_tasks_, epc, eIdx, eTask,
                   wpc, wex, wIdx, wFrame, devOut, events, nextMarker,
                   accepted, invoked, rejected, early, nEvents, handled,
                   published, hw_accel_, format_, cam_fd_, cam_capture_,
                   has_first_keyframe_, frame_buffer_, decoder_, cpc, cBuffer,
                   camQ, nFrames, seen, requeued, staleReads, dpc, cdpc,
                   ctrlFailed, issued, fbQueued, fbMem, fbFrame, fbClone,
                   fbCloned, fbOwned, fbCall, mpCam, mpCodec, mpFrame,
                   mpReport, dqReq, waits, initReq, controls_,
                   is_controls_updated_, requests_, rcpc, rcReq, nSets,
                   merged, uart_fd_, connected_, seq_, mutex_, uinit, uport,
                   upc, ucmd, uafter, usaw, nSends, stops, written>>

\* V4L2Codec::SubscribeEvent
SubscribeEvent ==
    /\ alive /\ fd_ /\ ~started /\ ~subscribed
    /\ subscribed' = TRUE
    /\ UNCHANGED <<alive, fd_, output_, capture_, width_, abort_, started,
                   outSetup, capSetup, output_buffer_index_, capturing_tasks_,
                   epc, eIdx, eTask, wpc, wex, wIdx, wFrame, devOut, devCap,
                   events, nextMarker, accepted, invoked, rejected, faults,
                   early, lastAlloc, nEvents, handled, published, hw_accel_,
                   format_, cam_fd_, cam_capture_, has_first_keyframe_,
                   frame_buffer_, decoder_, cpc, cBuffer, camQ, nFrames, seen,
                   requeued, staleReads, dpc, cdpc, ctrlFailed, issued,
                   fbQueued, fbMem, fbFrame, fbClone, fbCloned, fbOwned,
                   fbCall, mpCam, mpCodec, mpFrame, mpReport, dqReq, waits,
                   initReq, controls_, is_controls_updated_, requests_, rcpc,
                   rcReq, nSets, merged, uart_fd_, connected_, seq_, mutex_,
                   uinit, uport, upc, ucmd, uafter, usaw, nSends, stops,
                   written>>

\* V4L2Codec::Start: exit(EXIT_FAILURE) unless both group types are set, else
\* stream on both queues, clear abort_ and run the worker
StartChecks == output_.type = "OUTPUT_MPLANE" /\ capture_.type = "CAPTURE_MPLANE"

Start ==
    /\ alive /\ fd_ /\ ~started
    /\ IF ~StartChecks
       THEN /\ alive' = FALSE
            /\ UNCHANGED <<devOut, devCap, abort_, started, wpc>>
       ELSE /\ devOut' = [devOut EXCEPT !.streamOn = TRUE]
            /\ devCap' = [devCap EXCEPT !.streamOn = TRUE]
            /\ abort_' = FALSE
            /\ started' = TRUE
            /\ wpc' = "top"
            /\ UNCHANGED alive
    /\ UNCHANGED <<fd_, output_, capture_, width_, subscribed, outSetup,
                   capSetup, output_buffer_index_, capturing_tasks_, epc,
                   eIdx, eTask, wex, wIdx, wFrame, events, nextMarker,
                   accepted, invoked, rejected, faults, early, lastAlloc,
                   nEvents, handled, published, hw_accel_, format_, cam_fd_,
                   cam_capture_, has_first_keyframe_, frame_buffer_, decoder_,
                   cpc, cBuffer, camQ, nFrames, seen, requeued, staleReads,
                   dpc, cdpc, ctrlFailed, issued, fbQueued, fbMem, fbFrame,
                   fbClone, fbCloned, fbOwned, fbCall, mpCam, mpCodec,
                   mpFrame, mpReport, dqReq, waits, initReq, controls_,
                   is_controls_updated_, requests_, rcpc, rcReq, nSets,
                   merged, uart_fd_, connected_, seq_, mutex_, uinit, uport,
                   upc, ucmd, uafter, usaw, nSends, stops, written>>

\* V4L2Codec::~V4L2Codec, first statement: abort_ = true
SetAbort ==
    /\ alive /\ started /\ ~abort_
    /\ abort_' = TRUE
    /\ UNCHANGED <<alive, fd_, output_, capture_, width_, started, subscribed,
                   outSetup, capSetup, output_buffer_index_, capturing_tasks_,
                   epc, eIdx, eTask, wpc, wex, wIdx, wFrame, devOut, devCap,
                   events, nextMarker, accepted, invoked, rejected, faults,
                   early, lastAlloc, nEvents, handled, published, hw_accel_,
                   format_, cam_fd_, cam_capture_, has_first_keyframe_,
                   frame_buffer_, decoder_, cpc, cBuffer, camQ, nFrames, seen,
                   requeued, staleReads, dpc, cdpc, ctrlFailed, issued,
                   fbQueued, fbMem, fbFrame, fbClone, fbCloned, fbOwned,
                   fbCall, mpCam, mpCodec, mpFrame, mpReport, dqReq, waits,
                   initReq, controls_, is_controls_updated_, requests_, rcpc,
                   rcReq, nSets, merged, uart_fd_, connected_, seq_, mutex_,
                   uinit, uport, upc, ucmd, uafter, usaw, nSends, stops,
                   written>>

(* --- EmplaceBuffer: the calling thread, one step per queue op / ioctl --- *)
\* locals of a call are reset when it returns

\* a client thread calls EmplaceBuffer(frame, on_capture) with a fresh marker
Submit ==
    /\ alive /\ started /\ epc = "idle" /\ nextMarker <= MaxSubmit
    /\ eTask' = [m |-> nextMarker, kind |-> "client", ts |-> 0]
    /\ nextMarker' = nextMarker + 1
    /\ epc' = "pop"
    /\ UNCHANGED <<alive, fd_, output_, capture_, width_, abort_, started,
                   subscribed, outSetup, capSetup, output_buffer_index_,
                   capturing_tasks_, eIdx, wpc, wex, wIdx, wFrame, devOut,
                   devCap, events, accepted, invoked, rejected, faults, early,
                   lastAlloc, nEvents, handled, published, hw_accel_, format_,
                   cam_fd_, cam_capture_, has_first_keyframe_, frame_buffer_,
                   decoder_, cpc, cBuffer, camQ, nFrames, seen, requeued,
                   staleReads, dpc, cdpc, ctrlFailed, issued, fbQueued, fbMem,
                   fbFrame, fbClone, fbCloned, fbOwned, fbCall, mpCam,
                   mpCodec, mpFrame, mpReport, dqReq, waits, initReq,
                   controls_, is_controls_updated_, requests_, rcpc, rcReq,
                   nSets, merged, uart_fd_, connected_, seq_, mutex_, uinit,
                   uport, upc, ucmd, uafter, usaw, nSends, stops, written>>

\* a variant of EmplacePop without the early return: an empty pool yields
\* index 0 and the call goes on
EmplacePopAnyway ==
    /\ alive /\ epc = "pop"
    /\ IF output_buffer_index_ = <<>>
       THEN /\ eIdx' = 0
            /\ UNCHANGED output_buffer_index_
       ELSE /\ eIdx' = QFront(output_buffer_index_)
            /\ output_buffer_index_' = QPop(output_buffer_index_)
    /\ epc' = "queue"
    /\ UNCHANGED <<alive, fd_, output_, capture_, width_, abort_, started,
                   subscribed, outSetup, capSetup, capturing_tasks_, eTask,
                   wpc, wex, wIdx, wFrame, devOut, devCap, events, nextMarker,
                   accepted, invoked, rejected, faults, early, lastAlloc,
                   nEvents, handled, published, hw_accel_, format_, cam_fd_,
                   cam_capture_, has_first_keyframe_, frame_buffer_, decoder_,
                   cpc, cBuffer, camQ, nFrames, seen, requeued, staleReads,
                   dpc, cdpc, ctrlFailed, issued, fbQueued, fbMem, fbFrame,
                   fbClone, fbCloned, fbOwned, fbCall, mpCam, mpCodec,
                   mpFrame, mpReport, dqReq, waits, initReq, controls_,
                   is_controls_updated_, requests_, rcpc, rcReq, nSets,
                   merged, uart_fd_, connected_, seq_, mutex_, uinit, uport,
                   upc, ucmd, uafter, usaw, nSends, stops, written>>

\* auto item = output_buffer_index_.pop(); if (!item) return;
EmplacePop ==
    /\ alive /\ epc = "pop"
    /\ IF output_buffer_index_ = <<>>
       THEN /\ rejected' = rejected \cup {eTask.m}
            /\ epc' = "idle"
            /\ eTask' = NoTask
            /\ UNCHANGED <<eIdx, output_buffer_index_>>
       ELSE /\ eIdx' = QFront(output_buffer_index_)
            /\ output_buffer_index_' = QPop(output_buffer_index_)
            /\ epc' = "queue"
            /\ UNCHANGED <<rejected, eTask>>
    /\ UNCHANGED <<alive, fd_, output_, capture_, width_, abort_, started,
                   subscribed, outSetup, capSetup, capturing_tasks_, wpc, wex,
                   wIdx, wFrame, devOut, devCap, events, nextMarker, accepted,
                   invoked, faults, early, lastAlloc, nEvents, handled,
                   published, hw_accel_, format_, cam_fd_, cam_capture_,
                   has_first_keyframe_, frame_buffer_, decoder_, cpc, cBuffer,
                   camQ, nFrames, seen, requeued, staleReads, dpc, cdpc,
                   ctrlFailed, issued, fbQueued, fbMem, fbFrame, fbClone,
                   fbCloned, fbOwned, fbCall, mpCam, mpCodec, mpFrame,
                   mpReport, dqReq, waits, initReq, controls_,
                   is_controls_updated_, requests_, rcpc, rcReq, nSets,
                   merged, uart_fd_, connected_, seq_, mutex_, uinit, uport,
                   upc, ucmd, uafter, usaw, nSends, stops, written>>

\* a variant of EmplaceQueue that keeps the index when VIDIOC_QBUF fails
EmplaceQueueKeepIndex ==
    /\ alive /\ epc = "queue"
    /\ \E qOk \in BOOLEAN :
         /\ ~qOk => faults < MaxFault
         /\ faults' = faults + B2N(~qOk)
         /\ IF qOk /\ eIdx < devOut.granted
            THEN /\ devOut' = [devOut EXCEPT
                                 !.queued = Append(@, [idx |-> eIdx, m |-> eTask.m])]
                 /\ accepted' = Append(accepted, eTask.m)
                 /\ epc' = "push"
                 /\ UNCHANGED <<output_buffer_index_, eIdx, eTask>>
            ELSE /\ epc' = "idle"
                 /\ eIdx' = 0 /\ eTask' = NoTask
                 /\ UNCHANGED <<devOut, accepted, output_buffer_index_>>
    /\ UNCHANGED <<alive, fd_, output_, capture_, width_, abort_, started,
                   subscribed, outSetup, capSetup, capturing_tasks_, wpc, wex,
                   wIdx, wFrame, devCap, events, nextMarker, invoked,
                   rejected, early, lastAlloc, nEvents, handled, published,
                   hw_accel_, format_, cam_fd_, cam_capture_,
                   has_first_keyframe_, frame_buffer_, decoder_, cpc, cBuffer,
                   camQ, nFrames, seen, requeued, staleReads, dpc, cdpc,
                   ctrlFailed, issued, fbQueued, fbMem, fbFrame, fbClone,
                   fbCloned, fbOwned, fbCall, mpCam, mpCodec, mpFrame,
                   mpReport, dqReq, waits, initReq, controls_,
                   is_controls_updated_, requests_, rcpc, rcReq, nSets,
                   merged, uart_fd_, connected_, seq_, mutex_, uinit, uport,
                   upc, ucmd, uafter, usaw, nSends, stops, written>>

\* fill the output buffer and VIDIOC_QBUF it; on failure push the index back.
\* VIDIOC_QBUF fails for an index the device did not grant.
EmplaceQueue ==
    /\ alive /\ epc = "queue"
    /\ \E qOk \in BOOLEAN :
         /\ ~qOk => faults < MaxFault
         /\ faults' = faults + B2N(~qOk)
         /\ IF qOk /\ eIdx < devOut.granted
            THEN /\ devOut' = [devOut EXCEPT
                                 !.queued = Append(@, [idx |-> eIdx, m |-> eTask.m])]
                 /\ accepted' = Append(accepted, eTask.m)
                 /\ epc' = "push"
                 /\ UNCHANGED <<output_buffer_index_, eIdx, eTask>>
            ELSE /\ output_buffer_index_' = QPush(output_buffer_index_, eIdx)
                 /\ epc' = "idle"
                 /\ eIdx' = 0 /\ eTask' = NoTask
                 /\ UNCHANGED <<devOut, accepted>>
    /\ UNCHANGED <<alive, fd_, output_, capture_, width_, abort_, started,
                   subscribed, outSetup, capSetup, capturing_tasks_, wpc, wex,
                   wIdx, wFrame, devCap, events, nextMarker, invoked,
                   rejected, early, lastAlloc, nEvents, handled, published,
                   hw_accel_, format_, cam_fd_, cam_capture_,
                   has_first_keyframe_, frame_buffer_, decoder_, cpc, cBuffer,
                   camQ, nFrames, seen, requeued, staleReads, dpc, cdpc,
                   ctrlFailed, issued, fbQueued, fbMem, fbFrame, fbClone,
                   fbCloned, fbOwned, fbCall, mpCam, mpCodec, mpFrame,
                   mpReport, dqReq, waits, initReq, controls_,
                   is_controls_updated_, requests_, rcpc, rcReq, nSets,
                   merged, uart_fd_, connected_, seq_, mutex_, uinit, uport,
                   upc, ucmd, uafter, usaw, nSends, stops, written>>

\* capturing_tasks_.push(on_capture);
EmplacePush ==
    /\ alive /\ epc = "push"
    /\ capturing_tasks_' = QPush(capturing_tasks_, eTask)
    /\ epc' = "idle"
    /\ eIdx' = 0 /\ eTask' = NoTask
    /\ UNCHANGED <<alive, fd_, output_, capture_, width_, abort_, started,
                   subscribed, outSetup, capSetup, output_buffer_index_, wpc,
                   wex, wIdx, wFrame, devOut, devCap, events, nextMarker,
                   accepted, invoked, rejected, faults, early, lastAlloc,
                   nEvents, handled, published, hw_accel_, format_, cam_fd_,
                   cam_capture_, has_first_keyframe_, frame_buffer_, decoder_,
                   cpc, cBuffer, camQ, nFrames, seen, requeued, staleReads,
                   dpc, cdpc, ctrlFailed, issued, fbQueued, fbMem, fbFrame,
                   fbClone, fbCloned, fbOwned, fbCall, mpCam, mpCodec,
                   mpFrame, mpReport, dqReq, waits, initReq, controls_,
                   is_controls_updated_, requests_, rcpc, rcReq, nSets,
                   merged, uart_fd_, connected_, seq_, mutex_, uinit, uport,
                   upc, ucmd, uafter, usaw, nSends, stops, written>>

(* --- CaptureBuffer: the worker thread, one step per queue op / ioctl ---- *)

\* a variant of WorkerTop that goes on to select() whatever abort_ holds
WorkerTopAnyway ==
    /\ alive /\ started /\ wpc = "top"
    /\ wpc' = "select"
    /\ UNCHANGED <<alive, fd_, output_, capture_, width_, abort_, started,
                   subscribed, outSetup, capSetup, output_buffer_index_,
                   capturing_tasks_, epc, eIdx, eTask, wex, wIdx, wFrame,
                   devOut, devCap, events, nextMarker, accepted, invoked,
                   rejected, faults, early, lastAlloc, nEvents, handled,
                   published, hw_accel_, format_, cam_fd_, cam_capture_,
                   has_first_keyframe_, frame_buffer_, decoder_, cpc, cBuffer,
                   camQ, nFrames, seen, requeued, staleReads, dpc, cdpc,
                   ctrlFailed, issued, fbQueued, fbMem, fbFrame, fbClone,
                   fbCloned, fbOwned, fbCall, mpCam, mpCodec, mpFrame,
                   mpReport, dqReq, waits, initReq, controls_,
                   is_controls_updated_, requests_, rcpc, rcReq, nSets,
                   merged, uart_fd_, connected_, seq_, mutex_, uinit, uport,
                   upc, ucmd, uafter, usaw, nSends, stops, written>>

\* if (abort_) return false;   (the worker then calls CaptureBuffer again)
WorkerTop ==
    /\ alive /\ started /\ wpc = "top" /\ ~abort_
    /\ wpc' = "select"
    /\ UNCHANGED <<alive, fd_, output_, capture_, width_, abort_, started,
                   subscribed, outSetup, capSetup, output_buffer_index_,
                   capturing_tasks_, epc, eIdx, eTask, wex, wIdx, wFrame,
                   devOut, devCap, events, nextMarker, accepted, invoked,
                   rejected, faults, early, lastAlloc, nEvents, handled,
                   published, hw_accel_, format_, cam_fd_, cam_capture_,
                   has_first_keyframe_, frame_buffer_, decoder_, cpc, cBuffer,
                   camQ, nFrames, seen, requeued, staleReads, dpc, cdpc,
                   ctrlFailed, issued, fbQueued, fbMem, fbFrame, fbClone,
                   fbCloned, fbOwned, fbCall, mpCam, mpCodec, mpFrame,
                   mpReport, dqReq, waits, initReq, controls_,
                   is_controls_updated_, requests_, rcpc, rcReq, nSets,
                   merged, uart_fd_, connected_, seq_, mutex_, uinit, uport,
                   upc, ucmd, uafter, usaw, nSends, stops, written>>

\* select() fails or times out: r <= 0, return false
SelectNone ==
    /\ alive /\ wpc = "select"
    /\ wpc' = "top"
    /\ UNCHANGED <<alive, fd_, output_, capture_, width_, abort_, started,
                   subscribed, outSetup, capSetup, output_buffer_index_,
                   capturing_tasks_, epc, eIdx, eTask, wex, wIdx, wFrame,
                   devOut, devCap, events, nextMarker, accepted, invoked,
                   rejected, faults, early, lastAlloc, nEvents, handled,
                   published, hw_accel_, format_, cam_fd_, cam_capture_,
                   has_first_keyframe_, frame_buffer_, decoder_, cpc, cBuffer,
                   camQ, nFrames, seen, requeued, staleReads, dpc, cdpc,
                   ctrlFailed, issued, fbQueued, fbMem, fbFrame, fbClone,
                   fbCloned, fbOwned, fbCall, mpCam, mpCodec, mpFrame,
                   mpReport, dqReq, waits, initReq, controls_,
                   is_controls_updated_, requests_, rcpc, rcReq, nSets,
                   merged, uart_fd_, connected_, seq_, mutex_, uinit, uport,
                   upc, ucmd, uafter, usaw, nSends, stops, written>>

\* select() reports the fd readable (a capture buffer is done) and/or in an
\* exceptional condition (an event is pending); abort_ is read again
SelectReady ==
    /\ alive /\ wpc = "select"
    /\ devCap.done # <<>> \/ events # <<>>
    /\ IF abort_
       THEN /\ wpc' = "top"
            /\ UNCHANGED wex
       ELSE /\ wex' = (events # <<>>)
            /\ wpc' = IF devCap.done # <<>> THEN "dq_out" ELSE "event"
    /\ UNCHANGED <<alive, fd_, output_, capture_, width_, abort_, started,
                   subscribed, outSetup, capSetup, output_buffer_index_,
                   capturing_tasks_, epc, eIdx, eTask, wIdx, wFrame, devOut,
                   devCap, events, nextMarker, accepted, invoked, rejected,
                   faults, early, lastAlloc, nEvents, handled, published,
                   hw_accel_, format_, cam_fd_, cam_capture_,
                   has_first_keyframe_, frame_buffer_, decoder_, cpc, cBuffer,
                   camQ, nFrames, seen, requeued, staleReads, dpc, cdpc,
                   ctrlFailed, issued, fbQueued, fbMem, fbFrame, fbClone,
                   fbCloned, fbOwned, fbCall, mpCam, mpCodec, mpFrame,
                   mpReport, dqReq, waits, initReq, controls_,
                   is_controls_updated_, requests_, rcpc, rcReq, nSets,
                   merged, uart_fd_, connected_, seq_, mutex_, uinit, uport,
                   upc, ucmd, uafter, usaw, nSends, stops, written>>

\* DequeueBuffer on the output queue; a failure returns false
DequeueOutput ==
    /\ alive /\ wpc = "dq_out"
    /\ \E dqOk \in BOOLEAN :
         /\ ~dqOk => faults < MaxFault
         /\ dqOk => devOut.done # <<>>
         /\ faults' = faults + B2N(~dqOk)
         /\ IF dqOk
            THEN /\ wIdx' = Head(devOut.done)
                 /\ devOut' = [devOut EXCEPT !.done = Tail(@)]
                 /\ wpc' = "push_idx"
                 /\ UNCHANGED wex
            ELSE /\ wpc' = "top"
                 /\ wex' = FALSE
                 /\ UNCHANGED <<wIdx, devOut>>
    /\ UNCHANGED <<alive, fd_, output_, capture_, width_, abort_, started,
                   subscribed, outSetup, capSetup, output_buffer_index_,
                   capturing_tasks_, epc, eIdx, eTask, wFrame, devCap, events,
                   nextMarker, accepted, invoked, rejected, early, lastAlloc,
                   nEvents, handled, published, hw_accel_, format_, cam_fd_,
                   cam_capture_, has_first_keyframe_, frame_buffer_, decoder_,
                   cpc, cBuffer, camQ, nFrames, seen, requeued, staleReads,
                   dpc, cdpc, ctrlFailed, issued, fbQueued, fbMem, fbFrame,
                   fbClone, fbCloned, fbOwned, fbCall, mpCam, mpCodec,
                   mpFrame, mpReport, dqReq, waits, initReq, controls_,
                   is_controls_updated_, requests_, rcpc, rcReq, nSets,
                   merged, uart_fd_, connected_, seq_, mutex_, uinit, uport,
                   upc, ucmd, uafter, usaw, nSends, stops, written>>

\* a variant of PushIndex that pushes the index only when the pool is empty
PushIndexIfEmpty ==
    /\ alive /\ wpc = "push_idx"
    /\ output_buffer_index_' = IF output_buffer_index_ = <<>>
                               THEN QPush(output_buffer_index_, wIdx)
                               ELSE output_buffer_index_
    /\ wpc' = "dq_cap"
    /\ wIdx' = 0
    /\ UNCHANGED <<alive, fd_, output_, capture_, width_, abort_, started,
                   subscribed, outSetup, capSetup, capturing_tasks_, epc,
                   eIdx, eTask, wex, wFrame, devOut, devCap, events,
                   nextMarker, accepted, invoked, rejected, faults, early,
                   lastAlloc, nEvents, handled, published, hw_accel_, format_,
                   cam_fd_, cam_capture_, has_first_keyframe_, frame_buffer_,
                   decoder_, cpc, cBuffer, camQ, nFrames, seen, requeued,
                   staleReads, dpc, cdpc, ctrlFailed, issued, fbQueued, fbMem,
                   fbFrame, fbClone, fbCloned, fbOwned, fbCall, mpCam,
                   mpCodec, mpFrame, mpReport, dqReq, waits, initReq,
                   controls_, is_controls_updated_, requests_, rcpc, rcReq,
                   nSets, merged, uart_fd_, connected_, seq_, mutex_, uinit,
                   uport, upc, ucmd, uafter, usaw, nSends, stops, written>>

\* output_buffer_index_.push(buf.index);
PushIndex ==
    /\ alive /\ wpc = "push_idx"
    /\ output_buffer_index_' = QPush(output_buffer_index_, wIdx)
    /\ wpc' = "dq_cap"
    /\ wIdx' = 0
    /\ UNCHANGED <<alive, fd_, output_, capture_, width_, abort_, started,
                   subscribed, outSetup, capSetup, capturing_tasks_, epc,
                   eIdx, eTask, wex, wFrame, devOut, devCap, events,
                   nextMarker, accepted, invoked, rejected, faults, early,
                   lastAlloc, nEvents, handled, published, hw_accel_, format_,
                   cam_fd_, cam_capture_, has_first_keyframe_, frame_buffer_,
                   decoder_, cpc, cBuffer, camQ, nFrames, seen, requeued,
                   staleReads, dpc, cdpc, ctrlFailed, issued, fbQueued, fbMem,
                   fbFrame, fbClone, fbCloned, fbOwned, fbCall, mpCam,
                   mpCodec, mpFrame, mpReport, dqReq, waits, initReq,
                   controls_, is_controls_updated_, requests_, rcpc, rcReq,
                   nSets, merged, uart_fd_, connected_, seq_, mutex_, uinit,
                   uport, upc, ucmd, uafter, usaw, nSends, stops, written>>

\* V4L2Buffer::FromCapturedPlane + V4L2FrameBuffer::Create: the result frame
\* is built with timestamp {0, 0}
FromCapturedPlane(b) ==
    [src |-> b.src, idx |-> b.idx, timestamp_ |-> 0, buffer_ |-> [timestamp |-> 0]]

\* DequeueBuffer on the capture queue, then build the result frame
DequeueCapture ==
    /\ alive /\ wpc = "dq_cap"
    /\ \E dqOk \in BOOLEAN :
         /\ ~dqOk => faults < MaxFault
         /\ dqOk => devCap.done # <<>>
         /\ faults' = faults + B2N(~dqOk)
         /\ IF dqOk
            THEN /\ wFrame' = FromCapturedPlane(Head(devCap.done))
                 /\ devCap' = [devCap EXCEPT !.done = Tail(@)]
                 /\ wpc' = "task"
                 /\ UNCHANGED wex
            ELSE /\ wpc' = "top"
                 /\ wex' = FALSE
                 /\ UNCHANGED <<wFrame, devCap>>
    /\ UNCHANGED <<alive, fd_, output_, capture_, width_, abort_, started,
                   subscribed, outSetup, capSetup, output_buffer_index_,
                   capturing_tasks_, epc, eIdx, eTask, wIdx, devOut, events,
                   nextMarker, accepted, invoked, rejected, early, lastAlloc,
                   nEvents, handled, published, hw_accel_, format_, cam_fd_,
                   cam_capture_, has_first_keyframe_, frame_buffer_, decoder_,
                   cpc, cBuffer, camQ, nFrames, seen, requeued, staleReads,
                   dpc, cdpc, ctrlFailed, issued, fbQueued, fbMem, fbFrame,
                   fbClone, fbCloned, fbOwned, fbCall, mpCam, mpCodec,
                   mpFrame, mpReport, dqReq, waits, initReq, controls_,
                   is_controls_updated_, requests_, rcpc, rcReq, nSets,
                   merged, uart_fd_, connected_, seq_, mutex_, uinit, uport,
                   upc, ucmd, uafter, usaw, nSends, stops, written>>

\* descriptors VIDIOC_EXPBUF hands out: buffer i of a group gets FdBase + i
FdBase == 10
\* buffers[i].dmafd: -1 until exported; UnMap closes it and keeps the number
DmaFd(g, i) == IF i \in g.exported THEN FdBase + i ELSE -1
\* the descriptors of a group that are open
OpenFds(g) == {FdBase + i : i \in g.exported \ g.closed}
\* a variant of CapturedDmaFd that always takes the first buffer's descriptor
CapturedDmaFdFirst(g, idx) == DmaFd(g, 0)
\* FromCapturedPlane(..., capture_.buffers[buf.index].dmafd, ...): the
\* descriptor the result frame carries
CapturedDmaFd(g, idx) == DmaFd(g, idx)

\* V4L2FrameBuffer::GetRawBuffer returns buffer_ by value
GetRawBuffer(f) == f.buffer_

\* the callback V4L2Capturer::CaptureImage passes to the decoder:
\*   decoded_buffer->GetRawBuffer().timestamp = buffer.timestamp;
\*   stream_subject_.Next(decoded_buffer);
\* the assignment is made to the copy GetRawBuffer returned
CapturerCallback(task, decoded) ==
    LET raw == GetRawBuffer(decoded)
        assigned == [raw EXCEPT !.timestamp = task.ts]
    IN  decoded

\* a variant of NextTask that takes the newest task
NextTaskNewest(q) == q[Len(q)]
\* which task the worker takes from capturing_tasks_: the oldest
NextTask(q) == QFront(q)

\* a variant of RunTask that hands the capture buffer back to the device
\* before the callback is called
RunTaskRequeueFirst ==
    /\ alive /\ wpc = "task"
    /\ IF abort_
       THEN /\ wpc' = "top"
            /\ wex' = FALSE /\ wFrame' = NoFrame
            /\ UNCHANGED <<capturing_tasks_, invoked, published, devCap>>
       ELSE /\ wpc' = "q_cap"
            /\ UNCHANGED <<wex, wFrame>>
            /\ devCap' = [devCap EXCEPT !.queued = Append(@, wFrame.idx)]
            /\ IF capturing_tasks_ = <<>>
               THEN UNCHANGED <<capturing_tasks_, invoked, published>>
               ELSE LET task == NextTask(capturing_tasks_)
                    IN  /\ capturing_tasks_' = QPop(capturing_tasks_)
                        /\ invoked' = Append(invoked, [task |-> task.m,
                                                       frame |-> wFrame.src])
                        /\ published' =
                             IF task.kind = "capturer"
                             THEN Append(published,
                                         [kind |-> "decoded", ts |-> task.ts,
                                          frame |-> CapturerCallback(task, wFrame)])
                             ELSE published
    /\ UNCHANGED <<alive, fd_, output_, capture_, width_, abort_, started,
                   subscribed, outSetup, capSetup, output_buffer_index_, epc,
                   eIdx, eTask, wIdx, devOut, events, nextMarker, accepted,
                   rejected, faults, early, lastAlloc, nEvents, handled,
                   hw_accel_, format_, cam_fd_, cam_capture_,
                   has_first_keyframe_, frame_buffer_, decoder_, cpc, cBuffer,
                   camQ, nFrames, seen, requeued, staleReads, dpc, cdpc,
                   ctrlFailed, issued, fbQueued, fbMem, fbFrame, fbClone,
                   fbCloned, fbOwned, fbCall, mpCam, mpCodec, mpFrame,
                   mpReport, dqReq, waits, initReq, controls_,
                   is_controls_updated_, requests_, rcpc, rcReq, nSets,
                   merged, uart_fd_, connected_, seq_, mutex_, uinit, uport,
                   upc, ucmd, uafter, usaw, nSends, stops, written>>
\* if (abort_) return false; pop the oldest task and call it with the frame
RunTask ==
    /\ alive /\ wpc = "task"
    /\ IF abort_
       THEN /\ wpc' = "top"
            /\ wex' = FALSE /\ wFrame' = NoFrame
            /\ UNCHANGED <<capturing_tasks_, invoked, published>>
       ELSE /\ wpc' = "q_cap"
            /\ UNCHANGED <<wex, wFrame>>
            /\ IF capturing_tasks_ = <<>>
               THEN UNCHANGED <<capturing_tasks_, invoked, published>>
               ELSE LET task == NextTask(capturing_tasks_)
                    IN  /\ capturing_tasks_' = QPop(capturing_tasks_)
                        /\ invoked' = Append(invoked, [task |-> task.m,
                                                       frame |-> wFrame.src])
                        /\ published' =
                             IF task.kind = "capturer"
                             THEN Append(published,
                                         [kind |-> "decoded", ts |-> task.ts,
                                          frame |-> CapturerCallback(task, wFrame)])
                             ELSE published
    /\ UNCHANGED <<alive, fd_, output_, capture_, width_, abort_, started,
                   subscribed, outSetup, capSetup, output_buffer_index_, epc,
                   eIdx, eTask, wIdx, devOut, devCap, events, nextMarker,
                   accepted, rejected, faults, early, lastAlloc, nEvents,
                   handled, hw_accel_, format_, cam_fd_, cam_capture_,
                   has_first_keyframe_, frame_buffer_, decoder_, cpc, cBuffer,
                   camQ, nFrames, seen, requeued, staleReads, dpc, cdpc,
                   ctrlFailed, issued, fbQueued, fbMem, fbFrame, fbClone,
                   fbCloned, fbOwned, fbCall, mpCam, mpCodec, mpFrame,
                   mpReport, dqReq, waits, initReq, controls_,
                   is_controls_updated_, requests_, rcpc, rcReq, nSets,
                   merged, uart_fd_, connected_, seq_, mutex_, uinit, uport,
                   upc, ucmd, uafter, usaw, nSends, stops, written>>

\* a variant of RequeueCapture that hands the buffer back only when a callback
\* ran for it
RequeueCaptureIfTask ==
    /\ alive /\ wpc = "q_cap"
    /\ \E qOk \in BOOLEAN :
         /\ ~qOk => faults < MaxFault
         /\ faults' = faults + B2N(~qOk)
         /\ IF qOk /\ QBufAccepted(capture_, devCap.granted, wFrame.idx)
               /\ Len(invoked) > 0 /\ invoked[Len(invoked)].frame = wFrame.src
            THEN /\ devCap' = [devCap EXCEPT !.queued = Append(@, wFrame.idx)]
                 /\ wpc' = IF wex THEN "event" ELSE "top"
            ELSE /\ wpc' = "top"
                 /\ UNCHANGED devCap
    /\ wex' = FALSE /\ wFrame' = NoFrame
    /\ UNCHANGED <<alive, fd_, output_, capture_, width_, abort_, started,
                   subscribed, outSetup, capSetup, output_buffer_index_,
                   capturing_tasks_, epc, eIdx, eTask, wIdx, devOut, events,
                   nextMarker, accepted, invoked, rejected, early, lastAlloc,
                   nEvents, handled, published, hw_accel_, format_, cam_fd_,
                   cam_capture_, has_first_keyframe_, frame_buffer_, decoder_,
                   cpc, cBuffer, camQ, nFrames, seen, requeued, staleReads,
                   dpc, cdpc, ctrlFailed, issued, fbQueued, fbMem, fbFrame,
                   fbClone, fbCloned, fbOwned, fbCall, mpCam, mpCodec,
                   mpFrame, mpReport, dqReq, waits, initReq, controls_,
                   is_controls_updated_, requests_, rcpc, rcReq, nSets,
                   merged, uart_fd_, connected_, seq_, mutex_, uinit, uport,
                   upc, ucmd, uafter, usaw, nSends, stops, written>>

\* QueueBuffer(capture_.buffers[buf.index].inner); a failure returns false
RequeueCapture ==
    /\ alive /\ wpc = "q_cap"
    /\ \E qOk \in BOOLEAN :
         /\ ~qOk => faults < MaxFault
         /\ faults' = faults + B2N(~qOk)
         /\ IF qOk /\ QBufAccepted(capture_, devCap.granted, wFrame.idx)
            THEN /\ devCap' = [devCap EXCEPT !.queued = Append(@, wFrame.idx)]
                 /\ wpc' = IF wex THEN "event" ELSE "top"
            ELSE /\ wpc' = "top"
                 /\ UNCHANGED devCap
    /\ wex' = FALSE /\ wFrame' = NoFrame
    /\ UNCHANGED <<alive, fd_, output_, capture_, width_, abort_, started,
                   subscribed, outSetup, capSetup, output_buffer_index_,
                   capturing_tasks_, epc, eIdx, eTask, wIdx, devOut, events,
                   nextMarker, accepted, invoked, rejected, early, lastAlloc,
                   nEvents, handled, published, hw_accel_, format_, cam_fd_,
                   cam_capture_, has_first_keyframe_, frame_buffer_, decoder_,
                   cpc, cBuffer, camQ, nFrames, seen, requeued, staleReads,
                   dpc, cdpc, ctrlFailed, issued, fbQueued, fbMem, fbFrame,
                   fbClone, fbCloned, fbOwned, fbCall, mpCam, mpCodec,
                   mpFrame, mpReport, dqReq, waits, initReq, controls_,
                   is_controls_updated_, requests_, rcpc, rcReq, nSets,
                   merged, uart_fd_, connected_, seq_, mutex_, uinit, uport,
                   upc, ucmd, uafter, usaw, nSends, stops, written>>

(* ------------------------- V4L2Codec::HandleEvent ----------------------- *)

\* what the device answers while a source change is handled
\* (deallocOk: the VIDIOC_REQBUFS(0) of DeallocateBuffer succeeds; the device
\* reports its current geometry, which is never 0x0)
NoFaultChange(n) == [deallocOk |-> TRUE, fmtOk |-> TRUE, devGeom |-> ReqGeom,
                     reqOk |-> TRUE, granted |-> n, failAt |-> n]
ChangeEnvs(n) ==
    {[NoFaultChange(n) EXCEPT !.devGeom = g] : g \in {ReqGeom, AdjGeom}}
    \cup {[NoFaultChange(n) EXCEPT !.deallocOk = FALSE],
          [NoFaultChange(n) EXCEPT !.fmtOk = FALSE],
          [NoFaultChange(n) EXCEPT !.fmtOk = FALSE, !.reqOk = FALSE]}
    \cup {[NoFaultChange(n) EXCEPT !.fmtOk = FALSE, !.granted = k] : k \in Grants(n)}
    \cup {[NoFaultChange(n) EXCEPT !.fmtOk = FALSE, !.failAt = k] : k \in 0..n}
ChangeFaults(e, n) == B2N(~e.deallocOk) + B2N(~e.fmtOk) + B2N(~e.reqOk)
                      + B2N(e.granted # n) + B2N(e.failAt < n)

\* V4L2Util::StreamOff on a queue: the device gives up every buffer it holds
StreamOff(q) == [q EXCEPT !.streamOn = FALSE, !.queued = <<>>, !.done = <<>>]
\* V4L2Util::StreamOn
StreamOn(q) == [q EXCEPT !.streamOn = TRUE]

\* a variant of CaptureChange that allocates one buffer fewer than before
CaptureChangeShrunk(cap, q, e) ==
    LET q1 == StreamOff(q)
        d == DeallocateBuffer(cap, e.deallocOk)
        f == SetFormat(d.g, ZeroGeom, e.fmtOk, e.devGeom)
        q2 == SetQueueFormat(IF d.ok THEN [q1 EXCEPT !.granted = 0] ELSE q1, f.dev)
        n == IF f.g.size > 0 THEN f.g.size - 1 ELSE 0
        a == AllocateBuffer(f.g, n, e.reqOk, e.granted, e.failAt)
        q3 == IF a.granted >= 0 THEN [q2 EXCEPT !.granted = a.granted] ELSE q2
    IN  IF f.res = "throw"
        THEN [threw |-> TRUE, g |-> f.g, q |-> q2, alloc |-> "none", granted |-> -1]
        ELSE [threw |-> FALSE, g |-> a.g, q |-> StreamOn(q3),
              alloc |-> IF a.ok THEN "true" ELSE "false", granted |-> a.granted]
\* case V4L2_EVENT_SOURCE_CHANGE: StreamOff, DeallocateBuffer, SetFormat(0, 0),
\* AllocateBuffer(capture_.buffers.size()), StreamOn -- on capture_ only.
\* SetFormat may throw, which ends the handler there.
CaptureChange(cap, q, e) ==
    LET q1 == StreamOff(q)
        d == DeallocateBuffer(cap, e.deallocOk)
        f == SetFormat(d.g, ZeroGeom, e.fmtOk, e.devGeom)
        q2 == SetQueueFormat(IF d.ok THEN [q1 EXCEPT !.granted = 0] ELSE q1, f.dev)
        a == AllocateBuffer(f.g, f.g.size, e.reqOk, e.granted, e.failAt)
        q3 == IF a.granted >= 0 THEN [q2 EXCEPT !.granted = a.granted] ELSE q2
    IN  IF f.res = "throw"
        THEN [threw |-> TRUE, g |-> f.g, q |-> q2, alloc |-> "none", granted |-> -1]
        ELSE [threw |-> FALSE, g |-> a.g, q |-> StreamOn(q3),
              alloc |-> IF a.ok THEN "true" ELSE "false", granted |-> a.granted]

\* a variant of SourceChange that also turns the output stream off
SourceChangeBoth(cap, q, out, e) == CaptureChange(cap, q, e) @@ [out |-> StreamOff(out)]
\* the handler names capture_ in every call; the output queue `out` is not passed
\* to any of them
SourceChange(cap, q, out, e) == CaptureChange(cap, q, e) @@ [out |-> out]

\* a variant of HandleEvent in which an end-of-stream event is dequeued and dropped
HandleEventIgnoreEos ==
    /\ alive /\ wpc = "event"
    /\ IF events = <<>>
       THEN /\ wpc' = "top"
            /\ UNCHANGED <<alive, capture_, devCap, devOut, events, faults, lastAlloc,
                           handled>>
       ELSE /\ events' = Tail(events)
            /\ IF Head(events) = "EOS"
               THEN /\ alive' = alive
                    /\ UNCHANGED <<wpc, capture_, devCap, devOut, faults, lastAlloc,
                                   handled>>
               ELSE \E e \in ChangeEnvs(capture_.size) :
                      /\ faults + ChangeFaults(e, capture_.size) <= MaxFault
                      /\ faults' = faults + ChangeFaults(e, capture_.size)
                      /\ LET r == SourceChange(capture_, devCap, devOut, e)
                         IN  /\ capture_' = r.g
                             /\ devCap' = r.q
                             /\ devOut' = r.out
                             /\ alive' = ~r.threw
                             /\ lastAlloc' = AllocRecord(lastAlloc, capture_.size, r)
                             /\ handled' = IF r.threw THEN "threw" ELSE "returned"
                             /\ UNCHANGED wpc
    /\ UNCHANGED <<fd_, output_, width_, abort_, started, subscribed,
                   outSetup, capSetup, output_buffer_index_, capturing_tasks_,
                   epc, eIdx, eTask, wex, wIdx, wFrame, nextMarker, accepted,
                   invoked, rejected, early, nEvents, published, hw_accel_,
                   format_, cam_fd_, cam_capture_, has_first_keyframe_,
                   frame_buffer_, decoder_, cpc, cBuffer, camQ, nFrames, seen,
                   requeued, staleReads, dpc, cdpc, ctrlFailed, issued,
                   fbQueued, fbMem, fbFrame, fbClone, fbCloned, fbOwned,
                   fbCall, mpCam, mpCodec, mpFrame, mpReport, dqReq, waits,
                   initReq, controls_, is_controls_updated_, requests_, rcpc,
                   rcReq, nSets, merged, uart_fd_, connected_, seq_, mutex_,
                   uinit, uport, upc, ucmd, uafter, usaw, nSends, stops,
                   written>>
\* one turn of  while (!ioctl(fd_, VIDIOC_DQEVENT, &ev)); an exception that
\* leaves the worker's function ends the process
HandleEvent ==
    /\ alive /\ wpc = "event"
    /\ IF events = <<>>
       THEN /\ wpc' = "top"
            /\ UNCHANGED <<alive, capture_, devCap, devOut, events, faults, lastAlloc,
                           handled>>
       ELSE /\ events' = Tail(events)
            /\ IF Head(events) = "EOS"
               THEN /\ alive' = FALSE
                    /\ UNCHANGED <<wpc, capture_, devCap, devOut, faults, lastAlloc,
                                   handled>>
               ELSE \E e \in ChangeEnvs(capture_.size) :
                      /\ faults + ChangeFaults(e, capture_.size) <= MaxFault
                      /\ faults' = faults + ChangeFaults(e, capture_.size)
                      /\ LET r == SourceChange(capture_, devCap, devOut, e)
                         IN  /\ capture_' = r.g
                             /\ devCap' = r.q
                             /\ devOut' = r.out
                             /\ alive' = ~r.threw
                             /\ lastAlloc' = AllocRecord(lastAlloc, capture_.size, r)
                             /\ handled' = IF r.threw THEN "threw" ELSE "returned"
                             /\ UNCHANGED wpc
    /\ UNCHANGED <<fd_, output_, width_, abort_, started, subscribed,
                   outSetup, capSetup, output_buffer_index_, capturing_tasks_,
                   epc, eIdx, eTask, wex, wIdx, wFrame, nextMarker, accepted,
                   invoked, rejected, early, nEvents, published, hw_accel_,
                   format_, cam_fd_, cam_capture_, has_first_keyframe_,
                   frame_buffer_, decoder_, cpc, cBuffer, camQ, nFrames, seen,
                   requeued, staleReads, dpc, cdpc, ctrlFailed, issued,
                   fbQueued, fbMem, fbFrame, fbClone, fbCloned, fbOwned,
                   fbCall, mpCam, mpCodec, mpFrame, mpReport, dqReq, waits,
                   initReq, controls_, is_controls_updated_, requests_, rcpc,
                   rcReq, nSets, merged, uart_fd_, connected_, seq_, mutex_,
                   uinit, uport, upc, ucmd, uafter, usaw, nSends, stops,
                   written>>

(* ------------------------ V4L2Codec::~V4L2Codec ------------------------- *)
\* the steps after abort_ = true (SetAbort); the results of the ioctls are not
\* looked at

\* worker_.reset(): returns when the worker's current CaptureBuffer call has
\* returned; the worker makes no further call
StopWorker ==
    /\ alive /\ abort_ /\ wpc = "top" /\ dpc = "none"
    /\ wpc' = "stopped"
    /\ dpc' = "joined"
    /\ UNCHANGED <<alive, fd_, output_, capture_, width_, abort_, started,
                   subscribed, outSetup, capSetup, output_buffer_index_,
                   capturing_tasks_, epc, eIdx, eTask, wex, wIdx, wFrame,
                   devOut, devCap, events, nextMarker, accepted, invoked,
                   rejected, faults, early, lastAlloc, nEvents, handled,
                   published, hw_accel_, format_, cam_fd_, cam_capture_,
                   has_first_keyframe_, frame_buffer_, decoder_, cpc, cBuffer,
                   camQ, nFrames, seen, requeued, staleReads, cdpc,
                   ctrlFailed, issued, fbQueued, fbMem, fbFrame, fbClone,
                   fbCloned, fbOwned, fbCall, mpCam, mpCodec, mpFrame,
                   mpReport, dqReq, waits, initReq, controls_,
                   is_controls_updated_, requests_, rcpc, rcReq, nSets,
                   merged, uart_fd_, connected_, seq_, mutex_, uinit, uport,
                   upc, ucmd, uafter, usaw, nSends, stops, written>>

\* V4L2Util::StreamOff(fd_, output_.type); V4L2Util::StreamOff(fd_, capture_.type);
DestroyStreamOff ==
    /\ alive /\ dpc = "joined"
    /\ \E outOk \in BOOLEAN, capOk \in BOOLEAN :
         /\ faults + B2N(~outOk) + B2N(~capOk) <= MaxFault
         /\ faults' = faults + B2N(~outOk) + B2N(~capOk)
         /\ devOut' = IF outOk THEN StreamOff(devOut) ELSE devOut
         /\ devCap' = IF capOk THEN StreamOff(devCap) ELSE devCap
    /\ dpc' = "off"
    /\ UNCHANGED <<alive, fd_, output_, capture_, width_, abort_, started,
                   subscribed, outSetup, capSetup, output_buffer_index_,
                   capturing_tasks_, epc, eIdx, eTask, wpc, wex, wIdx, wFrame,
                   events, nextMarker, accepted, invoked, rejected, early,
                   lastAlloc, nEvents, handled, published, hw_accel_, format_,
                   cam_fd_, cam_capture_, has_first_keyframe_, frame_buffer_,
                   decoder_, cpc, cBuffer, camQ, nFrames, seen, requeued,
                   staleReads, cdpc, ctrlFailed, issued, fbQueued, fbMem,
                   fbFrame, fbClone, fbCloned, fbOwned, fbCall, mpCam,
                   mpCodec, mpFrame, mpReport, dqReq, waits, initReq,
                   controls_, is_controls_updated_, requests_, rcpc, rcReq,
                   nSets, merged, uart_fd_, connected_, seq_, mutex_, uinit,
                   uport, upc, ucmd, uafter, usaw, nSends, stops, written>>

\* V4L2Util::DeallocateBuffer(fd_, &output_); V4L2Util::DeallocateBuffer(fd_, &capture_);
DestroyDeallocate ==
    /\ alive /\ dpc = "off"
    /\ \E outOk \in BOOLEAN, capOk \in BOOLEAN :
         /\ faults + B2N(~outOk) + B2N(~capOk) <= MaxFault
         /\ faults' = faults + B2N(~outOk) + B2N(~capOk)
         /\ output_' = DeallocateBuffer(output_, outOk).g
         /\ capture_' = DeallocateBuffer(capture_, capOk).g
         /\ devOut' = IF outOk THEN [devOut EXCEPT !.granted = 0] ELSE devOut
         /\ devCap' = IF capOk THEN [devCap EXCEPT !.granted = 0] ELSE devCap
    /\ dpc' = "dealloc"
    /\ UNCHANGED <<alive, fd_, width_, abort_, started, subscribed, outSetup,
                   capSetup, output_buffer_index_, capturing_tasks_, epc,
                   eIdx, eTask, wpc, wex, wIdx, wFrame, events, nextMarker,
                   accepted, invoked, rejected, early, lastAlloc, nEvents,
                   handled, published, hw_accel_, format_, cam_fd_,
                   cam_capture_, has_first_keyframe_, frame_buffer_, decoder_,
                   cpc, cBuffer, camQ, nFrames, seen, requeued, staleReads,
                   cdpc, ctrlFailed, issued, fbQueued, fbMem, fbFrame,
                   fbClone, fbCloned, fbOwned, fbCall, mpCam, mpCodec,
                   mpFrame, mpReport, dqReq, waits, initReq, controls_,
                   is_controls_updated_, requests_, rcpc, rcReq, nSets,
                   merged, uart_fd_, connected_, seq_, mutex_, uinit, uport,
                   upc, ucmd, uafter, usaw, nSends, stops, written>>

\* a variant of DestroyClose that closes the device right after the stream-off
DestroyCloseEarly ==
    /\ alive /\ dpc \in {"off", "dealloc"}
    /\ dpc' = "closed"
    /\ UNCHANGED <<alive, fd_, output_, capture_, width_, abort_, started,
                   subscribed, outSetup, capSetup, output_buffer_index_,
                   capturing_tasks_, epc, eIdx, eTask, wpc, wex, wIdx, wFrame,
                   devOut, devCap, events, nextMarker, accepted, invoked,
                   rejected, faults, early, lastAlloc, nEvents, handled,
                   published, hw_accel_, format_, cam_fd_, cam_capture_,
                   has_first_keyframe_, frame_buffer_, decoder_, cpc, cBuffer,
                   camQ, nFrames, seen, requeued, staleReads, cdpc,
                   ctrlFailed, issued, fbQueued, fbMem, fbFrame, fbClone,
                   fbCloned, fbOwned, fbCall, mpCam, mpCodec, mpFrame,
                   mpReport, dqReq, waits, initReq, controls_,
                   is_controls_updated_, requests_, rcpc, rcReq, nSets,
                   merged, uart_fd_, connected_, seq_, mutex_, uinit, uport,
                   upc, ucmd, uafter, usaw, nSends, stops, written>>

\* V4L2Util::CloseDevice(fd_);
DestroyClose ==
    /\ alive /\ dpc = "dealloc"
    /\ dpc' = "closed"
    /\ UNCHANGED <<alive, fd_, output_, capture_, width_, abort_, started,
                   subscribed, outSetup, capSetup, output_buffer_index_,
                   capturing_tasks_, epc, eIdx, eTask, wpc, wex, wIdx, wFrame,
                   devOut, devCap, events, nextMarker, accepted, invoked,
                   rejected, faults, early, lastAlloc, nEvents, handled,
                   published, hw_accel_, format_, cam_fd_, cam_capture_,
                   has_first_keyframe_, frame_buffer_, decoder_, cpc, cBuffer,
                   camQ, nFrames, seen, requeued, staleReads, cdpc,
                   ctrlFailed, issued, fbQueued, fbMem, fbFrame, fbClone,
                   fbCloned, fbOwned, fbCall, mpCam, mpCodec, mpFrame,
                   mpReport, dqReq, waits, initReq, controls_,
                   is_controls_updated_, requests_, rcpc, rcReq, nSets,
                   merged, uart_fd_, connected_, seq_, mutex_, uinit, uport,
                   upc, ucmd, uafter, usaw, nSends, stops, written>>

(* ------------------------------ M2M device ------------------------------ *)

\* the device consumes the oldest queued output buffer and fills the oldest
\* queued capture buffer with its result
DeviceProcess ==
    /\ alive /\ devOut.streamOn /\ devCap.streamOn
    /\ devOut.queued # <<>> /\ devCap.queued # <<>>
    /\ LET o == Head(devOut.queued)
           c == Head(devCap.queued)
       IN  /\ devOut' = [devOut EXCEPT !.queued = Tail(@), !.done = Append(@, o.idx)]
           /\ devCap' = [devCap EXCEPT !.queued = Tail(@),
                                       !.done = Append(@, [idx |-> c, src |-> o.m])]
           /\ early' = (early \/ (epc = "push" /\ eTask.m = o.m))
    /\ UNCHANGED <<alive, fd_, output_, capture_, width_, abort_, started,
                   subscribed, outSetup, capSetup, output_buffer_index_,
                   capturing_tasks_, epc, eIdx, eTask, wpc, wex, wIdx, wFrame,
                   events, nextMarker, accepted, invoked, rejected, faults,
                   lastAlloc, nEvents, handled, published, hw_accel_, format_,
                   cam_fd_, cam_capture_, has_first_keyframe_, frame_buffer_,
                   decoder_, cpc, cBuffer, camQ, nFrames, seen, requeued,
                   staleReads, dpc, cdpc, ctrlFailed, issued, fbQueued, fbMem,
                   fbFrame, fbClone, fbCloned, fbOwned, fbCall, mpCam,
                   mpCodec, mpFrame, mpReport, dqReq, waits, initReq,
                   controls_, is_controls_updated_, requests_, rcpc, rcReq,
                   nSets, merged, uart_fd_, connected_, seq_, mutex_, uinit,
                   uport, upc, ucmd, uafter, usaw, nSends, stops, written>>

\* the device raises an event the codec subscribed to
DeviceEvent ==
    /\ alive /\ started /\ subscribed /\ nEvents < MaxEvents
    /\ \E ev \in {"SOURCE_CHANGE", "EOS"} : events' = Append(events, ev)
    /\ nEvents' = nEvents + 1
    /\ UNCHANGED <<alive, fd_, output_, capture_, width_, abort_, started,
                   subscribed, outSetup, capSetup, output_buffer_index_,
                   capturing_tasks_, epc, eIdx, eTask, wpc, wex, wIdx, wFrame,
                   devOut, devCap, nextMarker, accepted, invoked, rejected,
                   faults, early, lastAlloc, handled, published, hw_accel_,
                   format_, cam_fd_, cam_capture_, has_first_keyframe_,
                   frame_buffer_, decoder_, cpc, cBuffer, camQ, nFrames, seen,
                   requeued, staleReads, dpc, cdpc, ctrlFailed, issued,
                   fbQueued, fbMem, fbFrame, fbClone, fbCloned, fbOwned,
                   fbCall, mpCam, mpCodec, mpFrame, mpReport, dqReq, waits,
                   initReq, controls_, is_controls_updated_, requests_, rcpc,
                   rcReq, nSets, merged, uart_fd_, connected_, seq_, mutex_,
                   uinit, uport, upc, ucmd, uafter, usaw, nSends, stops,
                   written>>

(* ----------------------------- V4L2Capturer ----------------------------- *)

\* V4L2Capturer::IsCompressedFormat
IsCompressedFormat(format) == format \in {"MJPEG", "H264"}

\* what the camera answers during Initialize()
NoFaultInit == [openOk |-> TRUE, capOk |-> TRUE, fmtOk |-> TRUE, devGeom |-> ReqGeom]
InitEnvs ==
    {NoFaultInit, [NoFaultInit EXCEPT !.openOk = FALSE],
     [NoFaultInit EXCEPT !.capOk = FALSE], [NoFaultInit EXCEPT !.fmtOk = FALSE],
     [NoFaultInit EXCEPT !.devGeom = AdjGeom]}
InitFaults(e) == B2N(~e.openOk) + B2N(~e.capOk) + B2N(~e.fmtOk) + B2N(e.devGeom # ReqGeom)

\* the kinds of control call Initialize makes for a format: SetControls
\* (VIDIOC_S_EXT_CTRLS) for H264 only, SetFps and SetCtrl always
ControlCalls(format) ==
    {"fps", "ctrl"} \cup (IF format = "H264" THEN {"ext"} ELSE {})

\* a variant of Initialize that exits when a control call fails
InitializeStrict ==
    /\ alive /\ ~cam_fd_ /\ cpc = "none"
    /\ IF ~hw_accel_ /\ format_ = "H264"
       THEN /\ alive' = FALSE
            /\ UNCHANGED <<cam_fd_, cam_capture_, camQ, faults, ctrlFailed>>
       ELSE \E e \in InitEnvs, failed \in SUBSET ControlCalls(format_) :
              /\ faults + InitFaults(e) <= MaxFault
              /\ faults' = faults + InitFaults(e)
              /\ LET i == InitBuffer(cam_capture_, "VIDEO_CAPTURE", "MMAP", FALSE, e.capOk)
                     f == SetFormat(i.g, ReqGeom, e.fmtOk, e.devGeom)
                 IN  IF ~e.openOk \/ ~i.ok
                     THEN /\ alive' = FALSE
                          /\ UNCHANGED <<cam_fd_, cam_capture_, camQ, ctrlFailed>>
                     ELSE /\ alive' = (f.res # "throw" /\ failed = {})
                          /\ ctrlFailed' = failed
                          /\ cam_fd_' = TRUE
                          /\ cam_capture_' = f.g
                          /\ camQ' = SetQueueFormat(camQ, f.dev)
    /\ UNCHANGED <<fd_, output_, capture_, width_, abort_, started,
                   subscribed, outSetup, capSetup, output_buffer_index_,
                   capturing_tasks_, epc, eIdx, eTask, wpc, wex, wIdx, wFrame,
                   devOut, devCap, events, nextMarker, accepted, invoked,
                   rejected, early, lastAlloc, nEvents, handled, published,
                   hw_accel_, format_, has_first_keyframe_, frame_buffer_,
                   decoder_, cpc, cBuffer, nFrames, seen, requeued,
                   staleReads, dpc, cdpc, issued, fbQueued, fbMem, fbFrame,
                   fbClone, fbCloned, fbOwned, fbCall, mpCam, mpCodec,
                   mpFrame, mpReport, dqReq, waits, initReq, controls_,
                   is_controls_updated_, requests_, rcpc, rcReq, nSets,
                   merged, uart_fd_, connected_, seq_, mutex_, uinit, uport,
                   upc, ucmd, uafter, usaw, nSends, stops, written>>

\* V4L2Capturer::Initialize: exit unless the configuration is supported, the
\* device opens and InitBuffer succeeds; a failed SetFormat is only logged, a
\* geometry mismatch throws. `failed` are the kinds of control call the device
\* refuses; their results are logged or dropped.
Initialize ==
    /\ alive /\ ~cam_fd_ /\ cpc = "none"
    /\ IF ~hw_accel_ /\ format_ = "H264"
       THEN /\ alive' = FALSE
            /\ UNCHANGED <<cam_fd_, cam_capture_, camQ, faults, ctrlFailed>>
       ELSE \E e \in InitEnvs, failed \in SUBSET ControlCalls(format_) :
              /\ faults + InitFaults(e) <= MaxFault
              /\ faults' = faults + InitFaults(e)
              /\ LET i == InitBuffer(cam_capture_, "VIDEO_CAPTURE", "MMAP", FALSE, e.capOk)
                     f == SetFormat(i.g, ReqGeom, e.fmtOk, e.devGeom)
                 IN  IF ~e.openOk \/ ~i.ok
                     THEN /\ alive' = FALSE
                          /\ UNCHANGED <<cam_fd_, cam_capture_, camQ, ctrlFailed>>
                     ELSE /\ alive' = (f.res # "throw")
                          /\ ctrlFailed' = failed
                          /\ cam_fd_' = TRUE
                          /\ cam_capture_' = f.g
                          /\ camQ' = SetQueueFormat(camQ, f.dev)
    /\ UNCHANGED <<fd_, output_, capture_, width_, abort_, started,
                   subscribed, outSetup, capSetup, output_buffer_index_,
                   capturing_tasks_, epc, eIdx, eTask, wpc, wex, wIdx, wFrame,
                   devOut, devCap, events, nextMarker, accepted, invoked,
                   rejected, early, lastAlloc, nEvents, handled, published,
                   hw_accel_, format_, has_first_keyframe_, frame_buffer_,
                   decoder_, cpc, cBuffer, nFrames, seen, requeued,
                   staleReads, dpc, cdpc, issued, fbQueued, fbMem, fbFrame,
                   fbClone, fbCloned, fbOwned, fbCall, mpCam, mpCodec,
                   mpFrame, mpReport, dqReq, waits, initReq, controls_,
                   is_controls_updated_, requests_, rcpc, rcReq, nSets,
                   merged, uart_fd_, connected_, seq_, mutex_, uinit, uport,
                   upc, ucmd, uafter, usaw, nSends, stops, written>>

\* V4L2Capturer::StartCapture: exit(0) unless AllocateBuffer(buffer_count_) and
\* QueueBuffers succeed, else stream on and run the worker
StartCapture ==
    /\ alive /\ cam_fd_ /\ cpc = "none"
    /\ \E e \in SetupEnvs(buffer_count_) :
         /\ e.capOk /\ e.fmtOk /\ e.devGeom = ReqGeom
         /\ faults + SetupFaults(e, buffer_count_, "CAPTURE_MPLANE", "MMAP") <= MaxFault
         /\ faults' = faults + SetupFaults(e, buffer_count_, "CAPTURE_MPLANE", "MMAP")
         /\ LET a == AllocateBuffer(cam_capture_, buffer_count_, e.reqOk, e.granted,
                                    e.failAt)
                k == IF a.ok THEN QueueBuffers(a.g, e.granted, e.qFailAt) ELSE 0
                ok == a.ok /\ k = a.g.num_buffers
            IN  /\ cam_capture_' = a.g
                /\ lastAlloc' = [requested |-> buffer_count_, granted |-> a.granted,
                                 ok |-> a.ok, num_buffers |-> a.g.num_buffers]
                /\ camQ' = [camQ EXCEPT
                              !.granted = IF a.granted >= 0 THEN a.granted ELSE @,
                              !.queued = Indices(k),
                              !.streamOn = ok]
                /\ alive' = ok
                /\ cpc' = IF ok THEN "select" ELSE "none"
    /\ UNCHANGED <<fd_, output_, capture_, width_, abort_, started,
                   subscribed, outSetup, capSetup, output_buffer_index_,
                   capturing_tasks_, epc, eIdx, eTask, wpc, wex, wIdx, wFrame,
                   devOut, devCap, events, nextMarker, accepted, invoked,
                   rejected, early, nEvents, handled, published, hw_accel_,
                   format_, cam_fd_, has_first_keyframe_, frame_buffer_,
                   decoder_, cBuffer, nFrames, seen, requeued, staleReads,
                   dpc, cdpc, ctrlFailed, issued, fbQueued, fbMem, fbFrame,
                   fbClone, fbCloned, fbOwned, fbCall, mpCam, mpCodec,
                   mpFrame, mpReport, dqReq, waits, initReq, controls_,
                   is_controls_updated_, requests_, rcpc, rcReq, nSets,
                   merged, uart_fd_, connected_, seq_, mutex_, uinit, uport,
                   upc, ucmd, uafter, usaw, nSends, stops, written>>

(* --- CaptureImage: the capturer's worker, one step per shared operation - *)

\* select() fails or times out: return
CaptureTimeout ==
    /\ alive /\ cpc = "select"
    /\ UNCHANGED vars

\* V4L2Buffer::FromV4L2 + V4L2FrameBuffer::Create: the frame borrows the
\* buffer's memory and takes the timestamp the device stamped
FromV4L2(b) ==
    [src |-> b.ts, idx |-> b.idx, timestamp_ |-> b.ts, buffer_ |-> [timestamp |-> b.ts]]

\* if (hw_accel_ && format_ == V4L2_PIX_FMT_H264) {
\*     has_first_keyframe_ = (buffer.flags & V4L2_BUF_FLAG_KEYFRAME) != 0;
\*     if (!has_first_keyframe_) return; }
KeyframeRule(hw, format, has_first, buffer) ==
    IF hw /\ format = "H264"
    THEN [judged |-> TRUE, has_first |-> buffer.key, drop |-> ~buffer.key]
    ELSE [judged |-> FALSE, has_first |-> has_first, drop |-> FALSE]

\* DequeueBuffer, then the key-frame rule; a failed dequeue and a dropped
\* buffer both return from CaptureImage there
CaptureDequeue ==
    /\ alive /\ cpc = "select" /\ camQ.done # <<>>
    /\ \E dqOk \in BOOLEAN :
         /\ ~dqOk => faults < MaxFault
         /\ faults' = faults + B2N(~dqOk)
         /\ IF ~dqOk
            THEN UNCHANGED <<camQ, has_first_keyframe_, seen, cpc, cBuffer>>
            ELSE LET buffer == Head(camQ.done)
                     r == KeyframeRule(hw_accel_, format_, has_first_keyframe_, buffer)
                 IN  /\ camQ' = [camQ EXCEPT !.done = Tail(@)]
                     /\ has_first_keyframe_' = r.has_first
                     /\ seen' = IF r.judged
                                THEN Append(seen, [ts |-> buffer.ts, key |-> buffer.key,
                                                   forwarded |-> ~r.drop])
                                ELSE seen
                     /\ cpc' = IF r.drop THEN "select" ELSE "create"
                     /\ cBuffer' = IF r.drop THEN NoBuffer ELSE buffer
    /\ UNCHANGED <<alive, fd_, output_, capture_, width_, abort_, started,
                   subscribed, outSetup, capSetup, output_buffer_index_,
                   capturing_tasks_, epc, eIdx, eTask, wpc, wex, wIdx, wFrame,
                   devOut, devCap, events, nextMarker, accepted, invoked,
                   rejected, early, lastAlloc, nEvents, handled, published,
                   hw_accel_, format_, cam_fd_, cam_capture_, frame_buffer_,
                   decoder_, nFrames, requeued, staleReads, dpc, cdpc,
                   ctrlFailed, issued, fbQueued, fbMem, fbFrame, fbClone,
                   fbCloned, fbOwned, fbCall, mpCam, mpCodec, mpFrame,
                   mpReport, dqReq, waits, initReq, controls_,
                   is_controls_updated_, requests_, rcpc, rcReq, nSets,
                   merged, uart_fd_, connected_, seq_, mutex_, uinit, uport,
                   upc, ucmd, uafter, usaw, nSends, stops, written>>

\* frame_buffer_ = V4L2FrameBuffer::Create(width_, height_, buffer); without a
\* hardware decoder the frame goes to the subscribers at once
CaptureDeliver ==
    /\ alive /\ cpc = "create"
    /\ frame_buffer_' = FromV4L2(cBuffer)
    /\ IF hw_accel_ /\ IsCompressedFormat(format_)
       THEN /\ cpc' = "decode"
            /\ UNCHANGED published
       ELSE /\ cpc' = "requeue"
            /\ published' = Append(published, [kind |-> "raw", ts |-> cBuffer.ts,
                                               frame |-> FromV4L2(cBuffer)])
    /\ UNCHANGED <<alive, fd_, output_, capture_, width_, abort_, started,
                   subscribed, outSetup, capSetup, output_buffer_index_,
                   capturing_tasks_, epc, eIdx, eTask, wpc, wex, wIdx, wFrame,
                   devOut, devCap, events, nextMarker, accepted, invoked,
                   rejected, faults, early, lastAlloc, nEvents, handled,
                   hw_accel_, format_, cam_fd_, cam_capture_,
                   has_first_keyframe_, decoder_, cBuffer, camQ, nFrames,
                   seen, requeued, staleReads, dpc, cdpc, ctrlFailed, issued,
                   fbQueued, fbMem, fbFrame, fbClone, fbCloned, fbOwned,
                   fbCall, mpCam, mpCodec, mpFrame, mpReport, dqReq, waits,
                   initReq, controls_, is_controls_updated_, requests_, rcpc,
                   rcReq, nSets, merged, uart_fd_, connected_, seq_, mutex_,
                   uinit, uport, upc, ucmd, uafter, usaw, nSends, stops,
                   written>>

\* if (!decoder_) decoder_ = V4L2Decoder::Create(width_, height_, format_, true):
\* a codec pipeline with both groups set up and started
DecoderCreate ==
    /\ alive /\ cpc = "decode" /\ ~decoder_
    /\ LET ro == PrepareBuffer(NewGroup("NONE", "MMAP"), ReqGeom, "OUTPUT_MPLANE",
                               "MMAP", OutCount, FALSE, NoFaultEnv(OutCount))
           rc == PrepareBuffer(NewGroup("NONE", "MMAP"), ReqGeom, "CAPTURE_MPLANE",
                               "MMAP", CapCount, TRUE, NoFaultEnv(CapCount))
       IN  /\ output_' = ro.g
           /\ output_buffer_index_' = ro.pushed
           /\ devOut' = [SetQueueFormat(NewQueue, ro.dev) EXCEPT
                           !.granted = ro.granted, !.streamOn = TRUE]
           /\ capture_' = rc.g
           /\ devCap' = [SetQueueFormat(NewQueue, rc.dev) EXCEPT
                           !.granted = rc.granted, !.queued = rc.queued,
                           !.streamOn = TRUE]
    /\ fd_' = TRUE /\ width_' = ReqGeom
    /\ outSetup' = "true" /\ capSetup' = "true"
    /\ subscribed' = TRUE /\ started' = TRUE /\ abort_' = FALSE
    /\ wpc' = "top"
    /\ decoder_' = TRUE
    /\ UNCHANGED <<alive, capturing_tasks_, epc, eIdx, eTask, wex, wIdx,
                   wFrame, events, nextMarker, accepted, invoked, rejected,
                   faults, early, lastAlloc, nEvents, handled, published,
                   hw_accel_, format_, cam_fd_, cam_capture_,
                   has_first_keyframe_, frame_buffer_, cpc, cBuffer, camQ,
                   nFrames, seen, requeued, staleReads, dpc, cdpc, ctrlFailed,
                   issued, fbQueued, fbMem, fbFrame, fbClone, fbCloned,
                   fbOwned, fbCall, mpCam, mpCodec, mpFrame, mpReport, dqReq,
                   waits, initReq, controls_, is_controls_updated_, requests_,
                   rcpc, rcReq, nSets, merged, uart_fd_, connected_, seq_,
                   mutex_, uinit, uport, upc, ucmd, uafter, usaw, nSends,
                   stops, written>>

\* decoder_->EmplaceBuffer(frame_buffer_, [this, buffer](decoded_buffer) {...}):
\* the call runs on the capturer's worker; the callback keeps a copy of `buffer`
CaptureEmplace ==
    /\ alive /\ cpc = "decode" /\ decoder_ /\ epc = "idle"
    /\ eTask' = [m |-> nextMarker, kind |-> "capturer", ts |-> cBuffer.ts]
    /\ nextMarker' = nextMarker + 1
    /\ epc' = "pop"
    /\ cpc' = "emplace"
    /\ UNCHANGED <<alive, fd_, output_, capture_, width_, abort_, started,
                   subscribed, outSetup, capSetup, output_buffer_index_,
                   capturing_tasks_, eIdx, wpc, wex, wIdx, wFrame, devOut,
                   devCap, events, accepted, invoked, rejected, faults, early,
                   lastAlloc, nEvents, handled, published, hw_accel_, format_,
                   cam_fd_, cam_capture_, has_first_keyframe_, frame_buffer_,
                   decoder_, cBuffer, camQ, nFrames, seen, requeued,
                   staleReads, dpc, cdpc, ctrlFailed, issued, fbQueued, fbMem,
                   fbFrame, fbClone, fbCloned, fbOwned, fbCall, mpCam,
                   mpCodec, mpFrame, mpReport, dqReq, waits, initReq,
                   controls_, is_controls_updated_, requests_, rcpc, rcReq,
                   nSets, merged, uart_fd_, connected_, seq_, mutex_, uinit,
                   uport, upc, ucmd, uafter, usaw, nSends, stops, written>>

\* V4L2Util::QueueBuffer(fd_, &buf) at the end of CaptureImage
CaptureRequeue ==
    /\ alive
    /\ cpc = "requeue" \/ (cpc = "emplace" /\ epc = "idle")
    /\ \E qOk \in BOOLEAN :
         /\ ~qOk => faults < MaxFault
         /\ faults' = faults + B2N(~qOk)
         /\ IF qOk /\ QBufAccepted(cam_capture_, camQ.granted, cBuffer.idx)
            THEN /\ camQ' = [camQ EXCEPT !.queued = Append(@, cBuffer.idx)]
                 /\ requeued' = requeued \cup {cBuffer.ts}
            ELSE UNCHANGED <<camQ, requeued>>
    /\ cpc' = "select"
    /\ cBuffer' = NoBuffer
    /\ UNCHANGED <<alive, fd_, output_, capture_, width_, abort_, started,
                   subscribed, outSetup, capSetup, output_buffer_index_,
                   capturing_tasks_, epc, eIdx, eTask, wpc, wex, wIdx, wFrame,
                   devOut, devCap, events, nextMarker, accepted, invoked,
                   rejected, early, lastAlloc, nEvents, handled, published,
                   hw_accel_, format_, cam_fd_, cam_capture_,
                   has_first_keyframe_, frame_buffer_, decoder_, nFrames,
                   seen, staleReads, dpc, cdpc, ctrlFailed, issued, fbQueued,
                   fbMem, fbFrame, fbClone, fbCloned, fbOwned, fbCall, mpCam,
                   mpCodec, mpFrame, mpReport, dqReq, waits, initReq,
                   controls_, is_controls_updated_, requests_, rcpc, rcReq,
                   nSets, merged, uart_fd_, connected_, seq_, mutex_, uinit,
                   uport, upc, ucmd, uafter, usaw, nSends, stops, written>>

\* V4L2Capturer::GetI420Frame, called from another thread (Conductor::
\* TakeSnapshot): frame_buffer_->ToI420() reads the retained frame's memory; a
\* null frame_buffer_ is dereferenced all the same
GetI420Frame ==
    /\ alive /\ cpc # "none"
    /\ IF frame_buffer_ = NoFrame
       THEN /\ alive' = FALSE
            /\ UNCHANGED staleReads
       ELSE /\ staleReads' = IF frame_buffer_.timestamp_ \in requeued
                             THEN staleReads \cup {frame_buffer_.timestamp_}
                             ELSE staleReads
            /\ UNCHANGED alive
    /\ UNCHANGED <<fd_, output_, capture_, width_, abort_, started,
                   subscribed, outSetup, capSetup, output_buffer_index_,
                   capturing_tasks_, epc, eIdx, eTask, wpc, wex, wIdx, wFrame,
                   devOut, devCap, events, nextMarker, accepted, invoked,
                   rejected, faults, early, lastAlloc, nEvents, handled,
                   published, hw_accel_, format_, cam_fd_, cam_capture_,
                   has_first_keyframe_, frame_buffer_, decoder_, cpc, cBuffer,
                   camQ, nFrames, seen, requeued, dpc, cdpc, ctrlFailed,
                   issued, fbQueued, fbMem, fbFrame, fbClone, fbCloned,
                   fbOwned, fbCall, mpCam, mpCodec, mpFrame, mpReport, dqReq,
                   waits, initReq, controls_, is_controls_updated_, requests_,
                   rcpc, rcReq, nSets, merged, uart_fd_, connected_, seq_,
                   mutex_, uinit, uport, upc, ucmd, uafter, usaw, nSends,
                   stops, written>>

(* ----------------------------- camera device ---------------------------- *)

\* the camera fills the oldest queued buffer and stamps it; an H264 camera
\* flags key-frames
CameraFill ==
    /\ alive /\ camQ.streamOn /\ camQ.queued # <<>> /\ nFrames < MaxFrames
    /\ \E key \in (IF format_ = "H264" THEN BOOLEAN ELSE {FALSE}) :
         camQ' = [camQ EXCEPT !.queued = Tail(@),
                              !.done = Append(@, [idx |-> Head(camQ.queued),
                                                  ts |-> nFrames + 1, key |-> key])]
    /\ nFrames' = nFrames + 1
    /\ UNCHANGED <<alive, fd_, output_, capture_, width_, abort_, started,
                   subscribed, outSetup, capSetup, output_buffer_index_,
                   capturing_tasks_, epc, eIdx, eTask, wpc, wex, wIdx, wFrame,
                   devOut, devCap, events, nextMarker, accepted, invoked,
                   rejected, faults, early, lastAlloc, nEvents, handled,
                   published, hw_accel_, format_, cam_fd_, cam_capture_,
                   has_first_keyframe_, frame_buffer_, decoder_, cpc, cBuffer,
                   seen, requeued, staleReads, dpc, cdpc, ctrlFailed, issued,
                   fbQueued, fbMem, fbFrame, fbClone, fbCloned, fbOwned,
                   fbCall, mpCam, mpCodec, mpFrame, mpReport, dqReq, waits,
                   initReq, controls_, is_controls_updated_, requests_, rcpc,
                   rcReq, nSets, merged, uart_fd_, connected_, seq_, mutex_,
                   uinit, uport, upc, ucmd, uafter, usaw, nSends, stops,
                   written>>

(* ------------- CaptureImage: the wait, its outcome recorded ------------- *)
MaxPolls == 2

\* a variant of CapturePoll that lets go of the retained frame
CapturePollDropFrame ==
    /\ alive /\ cpc = "select" /\ Len(waits) < MaxPolls
    /\ \E r \in {"failed", "timeout"} :
         /\ r = "timeout" => camQ.done = <<>>
         /\ waits' = Append(waits, r)
    /\ frame_buffer_' = NoFrame
    /\ UNCHANGED <<alive, fd_, output_, capture_, width_, abort_, started,
                   subscribed, outSetup, capSetup, output_buffer_index_,
                   capturing_tasks_, epc, eIdx, eTask, wpc, wex, wIdx, wFrame,
                   devOut, devCap, events, nextMarker, accepted, invoked,
                   rejected, faults, early, lastAlloc, nEvents, handled,
                   published, hw_accel_, format_, cam_fd_, cam_capture_,
                   has_first_keyframe_, decoder_, cpc, cBuffer, camQ, nFrames,
                   seen, requeued, staleReads, dpc, cdpc, ctrlFailed, issued,
                   fbQueued, fbMem, fbFrame, fbClone, fbCloned, fbOwned,
                   fbCall, mpCam, mpCodec, mpFrame, mpReport, dqReq, initReq,
                   controls_, is_controls_updated_, requests_, rcpc, rcReq,
                   nSets, merged, uart_fd_, connected_, seq_, mutex_, uinit,
                   uport, upc, ucmd, uafter, usaw, nSends, stops, written>>
\* int r = select(...); if (r == -1) return; else if (r == 0) return;
\* select() times out when no buffer is done and may fail at any time; the
\* worker then calls CaptureImage again
CapturePoll ==
    /\ alive /\ cpc = "select" /\ Len(waits) < MaxPolls
    /\ \E r \in {"failed", "timeout"} :
         /\ r = "timeout" => camQ.done = <<>>
         /\ waits' = Append(waits, r)
    /\ UNCHANGED <<alive, fd_, output_, capture_, width_, abort_, started,
                   subscribed, outSetup, capSetup, output_buffer_index_,
                   capturing_tasks_, epc, eIdx, eTask, wpc, wex, wIdx, wFrame,
                   devOut, devCap, events, nextMarker, accepted, invoked,
                   rejected, faults, early, lastAlloc, nEvents, handled,
                   published, hw_accel_, format_, cam_fd_, cam_capture_,
                   has_first_keyframe_, frame_buffer_, decoder_, cpc, cBuffer,
                   camQ, nFrames, seen, requeued, staleReads, dpc, cdpc,
                   ctrlFailed, issued, fbQueued, fbMem, fbFrame, fbClone,
                   fbCloned, fbOwned, fbCall, mpCam, mpCodec, mpFrame,
                   mpReport, dqReq, initReq, controls_, is_controls_updated_,
                   requests_, rcpc, rcReq, nSets, merged, uart_fd_,
                   connected_, seq_, mutex_, uinit, uport, upc, ucmd, uafter,
                   usaw, nSends, stops, written>>

(* ---------------------- V4L2Capturer::~V4L2Capturer --------------------- *)
\* the results of the ioctls are not looked at

\* worker_.reset(): returns when the worker's current CaptureImage call has
\* returned; the worker makes no further call
CapturerStopWorker ==
    /\ alive /\ cpc = "select" /\ cdpc = "none"
    /\ cpc' = "stopped"
    /\ cdpc' = "joined"
    /\ UNCHANGED <<alive, fd_, output_, capture_, width_, abort_, started,
                   subscribed, outSetup, capSetup, output_buffer_index_,
                   capturing_tasks_, epc, eIdx, eTask, wpc, wex, wIdx, wFrame,
                   devOut, devCap, events, nextMarker, accepted, invoked,
                   rejected, faults, early, lastAlloc, nEvents, handled,
                   published, hw_accel_, format_, cam_fd_, cam_capture_,
                   has_first_keyframe_, frame_buffer_, decoder_, cBuffer,
                   camQ, nFrames, seen, requeued, staleReads, dpc, ctrlFailed,
                   issued, fbQueued, fbMem, fbFrame, fbClone, fbCloned,
                   fbOwned, fbCall, mpCam, mpCodec, mpFrame, mpReport, dqReq,
                   waits, initReq, controls_, is_controls_updated_, requests_,
                   rcpc, rcReq, nSets, merged, uart_fd_, connected_, seq_,
                   mutex_, uinit, uport, upc, ucmd, uafter, usaw, nSends,
                   stops, written>>

\* decoder_.reset() with a decoder: its destructor begins with abort_ = true
DecoderAbort ==
    /\ alive /\ cdpc = "joined" /\ decoder_ /\ ~abort_
    /\ abort_' = TRUE
    /\ UNCHANGED <<alive, fd_, output_, capture_, width_, started, subscribed,
                   outSetup, capSetup, output_buffer_index_, capturing_tasks_,
                   epc, eIdx, eTask, wpc, wex, wIdx, wFrame, devOut, devCap,
                   events, nextMarker, accepted, invoked, rejected, faults,
                   early, lastAlloc, nEvents, handled, published, hw_accel_,
                   format_, cam_fd_, cam_capture_, has_first_keyframe_,
                   frame_buffer_, decoder_, cpc, cBuffer, camQ, nFrames, seen,
                   requeued, staleReads, dpc, cdpc, ctrlFailed, issued,
                   fbQueued, fbMem, fbFrame, fbClone, fbCloned, fbOwned,
                   fbCall, mpCam, mpCodec, mpFrame, mpReport, dqReq, waits,
                   initReq, controls_, is_controls_updated_, requests_, rcpc,
                   rcReq, nSets, merged, uart_fd_, connected_, seq_, mutex_,
                   uinit, uport, upc, ucmd, uafter, usaw, nSends, stops,
                   written>>

\* decoder_.reset() returns: there was no decoder, or its destructor has run
DecoderReset ==
    /\ alive /\ cdpc = "joined"
    /\ decoder_ => dpc = "closed"
    /\ decoder_' = FALSE
    /\ cdpc' = "decoder"
    /\ UNCHANGED <<alive, fd_, output_, capture_, width_, abort_, started,
                   subscribed, outSetup, capSetup, output_buffer_index_,
                   capturing_tasks_, epc, eIdx, eTask, wpc, wex, wIdx, wFrame,
                   devOut, devCap, events, nextMarker, accepted, invoked,
                   rejected, faults, early, lastAlloc, nEvents, handled,
                   published, hw_accel_, format_, cam_fd_, cam_capture_,
                   has_first_keyframe_, frame_buffer_, cpc, cBuffer, camQ,
                   nFrames, seen, requeued, staleReads, dpc, ctrlFailed,
                   issued, fbQueued, fbMem, fbFrame, fbClone, fbCloned,
                   fbOwned, fbCall, mpCam, mpCodec, mpFrame, mpReport, dqReq,
                   waits, initReq, controls_, is_controls_updated_, requests_,
                   rcpc, rcReq, nSets, merged, uart_fd_, connected_, seq_,
                   mutex_, uinit, uport, upc, ucmd, uafter, usaw, nSends,
                   stops, written>>

\* V4L2Util::StreamOff(fd_, capture_.type);
CapturerStreamOff ==
    /\ alive /\ cdpc = "decoder"
    /\ \E ok \in BOOLEAN :
         /\ faults + B2N(~ok) <= MaxFault
         /\ faults' = faults + B2N(~ok)
         /\ camQ' = IF ok THEN StreamOff(camQ) ELSE camQ
    /\ cdpc' = "off"
    /\ UNCHANGED <<alive, fd_, output_, capture_, width_, abort_, started,
                   subscribed, outSetup, capSetup, output_buffer_index_,
                   capturing_tasks_, epc, eIdx, eTask, wpc, wex, wIdx, wFrame,
                   devOut, devCap, events, nextMarker, accepted, invoked,
                   rejected, early, lastAlloc, nEvents, handled, published,
                   hw_accel_, format_, cam_fd_, cam_capture_,
                   has_first_keyframe_, frame_buffer_, decoder_, cpc, cBuffer,
                   nFrames, seen, requeued, staleReads, dpc, ctrlFailed,
                   issued, fbQueued, fbMem, fbFrame, fbClone, fbCloned,
                   fbOwned, fbCall, mpCam, mpCodec, mpFrame, mpReport, dqReq,
                   waits, initReq, controls_, is_controls_updated_, requests_,
                   rcpc, rcReq, nSets, merged, uart_fd_, connected_, seq_,
                   mutex_, uinit, uport, upc, ucmd, uafter, usaw, nSends,
                   stops, written>>

\* V4L2Util::DeallocateBuffer(fd_, &capture_);
CapturerDeallocate ==
    /\ alive /\ cdpc = "off"
    /\ \E ok \in BOOLEAN :
         /\ faults + B2N(~ok) <= MaxFault
         /\ faults' = faults + B2N(~ok)
         /\ cam_capture_' = DeallocateBuffer(cam_capture_, ok).g
         /\ camQ' = IF ok THEN [camQ EXCEPT !.granted = 0] ELSE camQ
    /\ cdpc' = "dealloc"
    /\ UNCHANGED <<alive, fd_, output_, capture_, width_, abort_, started,
                   subscribed, outSetup, capSetup, output_buffer_index_,
                   capturing_tasks_, epc, eIdx, eTask, wpc, wex, wIdx, wFrame,
                   devOut, devCap, events, nextMarker, accepted, invoked,
                   rejected, early, lastAlloc, nEvents, handled, published,
                   hw_accel_, format_, cam_fd_, has_first_keyframe_,
                   frame_buffer_, decoder_, cpc, cBuffer, nFrames, seen,
                   requeued, staleReads, dpc, ctrlFailed, issued, fbQueued,
                   fbMem, fbFrame, fbClone, fbCloned, fbOwned, fbCall, mpCam,
                   mpCodec, mpFrame, mpReport, dqReq, waits, initReq,
                   controls_, is_controls_updated_, requests_, rcpc, rcReq,
                   nSets, merged, uart_fd_, connected_, seq_, mutex_, uinit,
                   uport, upc, ucmd, uafter, usaw, nSends, stops, written>>

\* V4L2Util::CloseDevice(fd_);
CapturerClose ==
    /\ alive /\ cdpc = "dealloc"
    /\ cdpc' = "closed"
    /\ UNCHANGED <<alive, fd_, output_, capture_, width_, abort_, started,
                   subscribed, outSetup, capSetup, output_buffer_index_,
                   capturing_tasks_, epc, eIdx, eTask, wpc, wex, wIdx, wFrame,
                   devOut, devCap, events, nextMarker, accepted, invoked,
                   rejected, faults, early, lastAlloc, nEvents, handled,
                   published, hw_accel_, format_, cam_fd_, cam_capture_,
                   has_first_keyframe_, frame_buffer_, decoder_, cpc, cBuffer,
                   camQ, nFrames, seen, requeued, staleReads, dpc, ctrlFailed,
                   issued, fbQueued, fbMem, fbFrame, fbClone, fbCloned,
                   fbOwned, fbCall, mpCam, mpCodec, mpFrame, mpReport, dqReq,
                   waits, initReq, controls_, is_controls_updated_, requests_,
                   rcpc, rcReq, nSets, merged, uart_fd_, connected_, seq_,
                   mutex_, uinit, uport, upc, ucmd, uafter, usaw, nSends,
                   stops, written>>

(* ------------------- V4L2Util: one call at a time ----------------------- *)
\* The Device Handle operations of V4L2Util, each called on its own on an open
\* device that may refuse any request.

\* the ioctl requests each operation makes, in order
Ioctls ==
    [QueryCapabilities |-> <<"VIDIOC_QUERYCAP">>,
     SetFormat         |-> <<"VIDIOC_G_FMT", "VIDIOC_S_FMT">>,
     SetFps            |-> <<"VIDIOC_S_PARM">>,
     SetCtrl           |-> <<"VIDIOC_S_CTRL">>,
     SetExtCtrl        |-> <<"VIDIOC_S_EXT_CTRLS">>,
     SubscribeEvent    |-> <<"VIDIOC_SUBSCRIBE_EVENT">>,
     StreamOn          |-> <<"VIDIOC_STREAMON">>,
     StreamOff         |-> <<"VIDIOC_STREAMOFF">>]

\* a variant of Issued in which a refused request is made a second time
IssuedRetrying(op, ok) ==
    [op |-> op, ok |-> ok,
     calls |-> IF ok THEN Ioctls[op]
               ELSE Append(Ioctls[op], Ioctls[op][Len(Ioctls[op])])]
\* what a call of `op` issues: its requests once each, whether or not the
\* device refuses the last one (every operation returns after its ioctl)
Issued(op, ok) == [op |-> op, ok |-> ok, calls |-> Ioctls[op]]

\* V4L2Util::QueryCapabilities
CallQueryCapabilities ==
    /\ alive /\ fd_
    /\ \E ok \in BOOLEAN : issued' = Issued("QueryCapabilities", ok)
    /\ UNCHANGED <<alive, fd_, output_, capture_, width_, abort_, started,
                   subscribed, outSetup, capSetup, output_buffer_index_,
                   capturing_tasks_, epc, eIdx, eTask, wpc, wex, wIdx, wFrame,
                   devOut, devCap, events, nextMarker, accepted, invoked,
                   rejected, faults, early, lastAlloc, nEvents, handled,
                   published, hw_accel_, format_, cam_fd_, cam_capture_,
                   has_first_keyframe_, frame_buffer_, decoder_, cpc, cBuffer,
                   camQ, nFrames, seen, requeued, staleReads, dpc, cdpc,
                   ctrlFailed, fbQueued, fbMem, fbFrame, fbClone, fbCloned,
                   fbOwned, fbCall, mpCam, mpCodec, mpFrame, mpReport, dqReq,
                   waits, initReq, controls_, is_controls_updated_, requests_,
                   rcpc, rcReq, nSets, merged, uart_fd_, connected_, seq_,
                   mutex_, uinit, uport, upc, ucmd, uafter, usaw, nSends,
                   stops, written>>

\* V4L2Util::SetFormat on the output or the capture group
CallSetFormat ==
    /\ alive /\ fd_
    /\ \E out \in BOOLEAN, geom \in {ReqGeom, ZeroGeom}, fmtOk \in BOOLEAN,
          devGeom \in {ReqGeom, AdjGeom} :
         LET f == SetFormat(IF out THEN output_ ELSE capture_, geom, fmtOk, devGeom)
         IN  /\ output_' = IF out THEN f.g ELSE output_
             /\ capture_' = IF out THEN capture_ ELSE f.g
             /\ devOut' = IF out THEN SetQueueFormat(devOut, f.dev) ELSE devOut
             /\ devCap' = IF out THEN devCap ELSE SetQueueFormat(devCap, f.dev)
             /\ alive' = (f.res # "throw")
             /\ issued' = Issued("SetFormat", fmtOk)
    /\ UNCHANGED <<fd_, width_, abort_, started, subscribed, outSetup,
                   capSetup, output_buffer_index_, capturing_tasks_, epc,
                   eIdx, eTask, wpc, wex, wIdx, wFrame, events, nextMarker,
                   accepted, invoked, rejected, faults, early, lastAlloc,
                   nEvents, handled, published, hw_accel_, format_, cam_fd_,
                   cam_capture_, has_first_keyframe_, frame_buffer_, decoder_,
                   cpc, cBuffer, camQ, nFrames, seen, requeued, staleReads,
                   dpc, cdpc, ctrlFailed, fbQueued, fbMem, fbFrame, fbClone,
                   fbCloned, fbOwned, fbCall, mpCam, mpCodec, mpFrame,
                   mpReport, dqReq, waits, initReq, controls_,
                   is_controls_updated_, requests_, rcpc, rcReq, nSets,
                   merged, uart_fd_, connected_, seq_, mutex_, uinit, uport,
                   upc, ucmd, uafter, usaw, nSends, stops, written>>

\* V4L2Util::SetFps, SetCtrl, SetExtCtrl
CallSetControl ==
    /\ alive /\ fd_
    /\ \E c \in {[op |-> "SetFps", kind |-> "fps"], [op |-> "SetCtrl", kind |-> "ctrl"],
                 [op |-> "SetExtCtrl", kind |-> "ext"]}, ok \in BOOLEAN :
         /\ ctrlFailed' = IF ok THEN ctrlFailed \ {c.kind} ELSE ctrlFailed \cup {c.kind}
         /\ issued' = Issued(c.op, ok)
    /\ UNCHANGED <<alive, fd_, output_, capture_, width_, abort_, started,
                   subscribed, outSetup, capSetup, output_buffer_index_,
                   capturing_tasks_, epc, eIdx, eTask, wpc, wex, wIdx, wFrame,
                   devOut, devCap, events, nextMarker, accepted, invoked,
                   rejected, faults, early, lastAlloc, nEvents, handled,
                   published, hw_accel_, format_, cam_fd_, cam_capture_,
                   has_first_keyframe_, frame_buffer_, decoder_, cpc, cBuffer,
                   camQ, nFrames, seen, requeued, staleReads, dpc, cdpc,
                   fbQueued, fbMem, fbFrame, fbClone, fbCloned, fbOwned,
                   fbCall, mpCam, mpCodec, mpFrame, mpReport, dqReq, waits,
                   initReq, controls_, is_controls_updated_, requests_, rcpc,
                   rcReq, nSets, merged, uart_fd_, connected_, seq_, mutex_,
                   uinit, uport, upc, ucmd, uafter, usaw, nSends, stops,
                   written>>

\* V4L2Util::SubscribeEvent
CallSubscribeEvent ==
    /\ alive /\ fd_
    /\ \E ok \in BOOLEAN :
         /\ subscribed' = (subscribed \/ ok)
         /\ issued' = Issued("SubscribeEvent", ok)
    /\ UNCHANGED <<alive, fd_, output_, capture_, width_, abort_, started,
                   outSetup, capSetup, output_buffer_index_, capturing_tasks_,
                   epc, eIdx, eTask, wpc, wex, wIdx, wFrame, devOut, devCap,
                   events, nextMarker, accepted, invoked, rejected, faults,
                   early, lastAlloc, nEvents, handled, published, hw_accel_,
                   format_, cam_fd_, cam_capture_, has_first_keyframe_,
                   frame_buffer_, decoder_, cpc, cBuffer, camQ, nFrames, seen,
                   requeued, staleReads, dpc, cdpc, ctrlFailed, fbQueued,
                   fbMem, fbFrame, fbClone, fbCloned, fbOwned, fbCall, mpCam,
                   mpCodec, mpFrame, mpReport, dqReq, waits, initReq,
                   controls_, is_controls_updated_, requests_, rcpc, rcReq,
                   nSets, merged, uart_fd_, connected_, seq_, mutex_, uinit,
                   uport, upc, ucmd, uafter, usaw, nSends, stops, written>>

\* V4L2Util::StreamOn on the output or the capture queue
CallStreamOn ==
    /\ alive /\ fd_
    /\ \E out \in BOOLEAN, ok \in BOOLEAN :
         /\ devOut' = IF out /\ ok THEN StreamOn(devOut) ELSE devOut
         /\ devCap' = IF ~out /\ ok THEN StreamOn(devCap) ELSE devCap
         /\ issued' = Issued("StreamOn", ok)
    /\ UNCHANGED <<alive, fd_, output_, capture_, width_, abort_, started,
                   subscribed, outSetup, capSetup, output_buffer_index_,
                   capturing_tasks_, epc, eIdx, eTask, wpc, wex, wIdx, wFrame,
                   events, nextMarker, accepted, invoked, rejected, faults,
                   early, lastAlloc, nEvents, handled, published, hw_accel_,
                   format_, cam_fd_, cam_capture_, has_first_keyframe_,
                   frame_buffer_, decoder_, cpc, cBuffer, camQ, nFrames, seen,
                   requeued, staleReads, dpc, cdpc, ctrlFailed, fbQueued,
                   fbMem, fbFrame, fbClone, fbCloned, fbOwned, fbCall, mpCam,
                   mpCodec, mpFrame, mpReport, dqReq, waits, initReq,
                   controls_, is_controls_updated_, requests_, rcpc, rcReq,
                   nSets, merged, uart_fd_, connected_, seq_, mutex_, uinit,
                   uport, upc, ucmd, uafter, usaw, nSends, stops, written>>

\* V4L2Util::StreamOff on the output or the capture queue
CallStreamOff ==
    /\ alive /\ fd_
    /\ \E out \in BOOLEAN, ok \in BOOLEAN :
         /\ devOut' = IF out /\ ok THEN StreamOff(devOut) ELSE devOut
         /\ devCap' = IF ~out /\ ok THEN StreamOff(devCap) ELSE devCap
         /\ issued' = Issued("StreamOff", ok)
    /\ UNCHANGED <<alive, fd_, output_, capture_, width_, abort_, started,
                   subscribed, outSetup, capSetup, output_buffer_index_,
                   capturing_tasks_, epc, eIdx, eTask, wpc, wex, wIdx, wFrame,
                   events, nextMarker, accepted, invoked, rejected, faults,
                   early, lastAlloc, nEvents, handled, published, hw_accel_,
                   format_, cam_fd_, cam_capture_, has_first_keyframe_,
                   frame_buffer_, decoder_, cpc, cBuffer, camQ, nFrames, seen,
                   requeued, staleReads, dpc, cdpc, ctrlFailed, fbQueued,
                   fbMem, fbFrame, fbClone, fbCloned, fbOwned, fbCall, mpCam,
                   mpCodec, mpFrame, mpReport, dqReq, waits, initReq,
                   controls_, is_controls_updated_, requests_, rcpc, rcReq,
                   nSets, merged, uart_fd_, connected_, seq_, mutex_, uinit,
                   uport, upc, ucmd, uafter, usaw, nSends, stops, written>>

(* --------------------------- V4L2FrameBuffer ---------------------------- *)
\* One mapped buffer descriptor, the frame created from it and a clone of that
\* frame. Bytes are drawn from Bytes; the mapping is MaxBytes long.
MaxBytes == 2
MaxStamp == 2
Bytes == {0, 1}
KeyFlag == 8
Memory == [1..MaxBytes -> Bytes]

\* struct V4L2Buffer as declared: no address, dmafd -1
EmptyBuffer == [start |-> "null", length |-> 0, flags |-> 0, dmafd |-> -1, timestamp |-> 0]

\* V4L2Buffer::FromV4L2 for a single-planar buffer
RawBuffer(bytesused, flags, timestamp) ==
    [start |-> "mapped", length |-> bytesused, flags |-> flags, dmafd |-> -1,
     timestamp |-> timestamp]

\* V4L2FrameBuffer(width, height, buffer): the frame keeps the descriptor and
\* owns no bytes
CreateFromBuffer(buffer) ==
    [size_ |-> buffer.length, flags_ |-> buffer.flags, timestamp_ |-> buffer.timestamp,
     buffer_ |-> buffer, owns |-> FALSE, data_ |-> <<>>]

\* webrtc::AlignedMalloc(size, alignment) returns a block (TRUE), or a null
\* pointer when size is 0 (FALSE)
AlignedMalloc(size) == size > 0

\* V4L2FrameBuffer(width, height, size, format): flags 0, timestamp {0, 0}, an
\* empty descriptor and data_ reset to what AlignedMalloc(size_) returned;
\* owns: data_ is not null
CreateOwning(size) ==
    [size_ |-> size, flags_ |-> 0, timestamp_ |-> 0,
     buffer_ |-> EmptyBuffer, owns |-> AlignedMalloc(size),
     data_ |-> [i \in 1..size |-> 0]]

\* a null frame pointer
NoFrameBuffer == CreateFromBuffer(EmptyBuffer)

\* V4L2FrameBuffer::Data: data_ ? data_.get() : buffer_.start
Data(f, mem) ==
    IF f.owns THEN f.data_
    ELSE IF f.buffer_.start = "mapped" THEN mem ELSE <<>>

\* V4L2FrameBuffer::MutableData: throws std::runtime_error if (!data_), else
\* returns data_.get()
MutableData(f) ==
    IF ~f.owns THEN [ok |-> FALSE, block |-> <<>>]
    ELSE [ok |-> TRUE, block |-> f.data_]

\* Clone() calls clone->MutableData() for the memcpy and does not catch
CloneThrows(f) == ~MutableData(CreateOwning(f.size_)).ok

\* V4L2FrameBuffer::SetDmaFd
SetDmaFd(f, fd) == IF fd > 0 THEN [f EXCEPT !.buffer_.dmafd = fd] ELSE f

\* a variant of Clone that hands out the frame itself, bytes not copied
CloneSharing(f, mem) == f
\* V4L2FrameBuffer::Clone: an owning frame of size_ bytes, filled by memcpy
\* from Data(); dmafd, flags_ and timestamp_ are copied
Clone(f, mem) ==
    [SetDmaFd(CreateOwning(f.size_), f.buffer_.dmafd) EXCEPT
        !.data_ = SubSeq(Data(f, mem), 1, f.size_),
        !.flags_ = f.flags_,
        !.timestamp_ = f.timestamp_]

\* what a frame exposes: size(), flags(), timestamp() and size() bytes at Data()
Exposed(f, mem) ==
    [bytes |-> SubSeq(Data(f, mem), 1, f.size_), size |-> f.size_,
     flags |-> f.flags_, timestamp |-> f.timestamp_]

\* the device hands the filled buffer back and a frame is created from it
FrameDequeue ==
    /\ alive /\ fbQueued
    /\ \E n \in 0..MaxBytes, fl \in {0, KeyFlag}, ts \in 1..MaxStamp :
         fbFrame' = CreateFromBuffer(RawBuffer(n, fl, ts))
    /\ fbQueued' = FALSE
    /\ UNCHANGED <<alive, fd_, output_, capture_, width_, abort_, started,
                   subscribed, outSetup, capSetup, output_buffer_index_,
                   capturing_tasks_, epc, eIdx, eTask, wpc, wex, wIdx, wFrame,
                   devOut, devCap, events, nextMarker, accepted, invoked,
                   rejected, faults, early, lastAlloc, nEvents, handled,
                   published, hw_accel_, format_, cam_fd_, cam_capture_,
                   has_first_keyframe_, frame_buffer_, decoder_, cpc, cBuffer,
                   camQ, nFrames, seen, requeued, staleReads, dpc, cdpc,
                   ctrlFailed, issued, fbMem, fbClone, fbCloned, fbOwned,
                   fbCall, mpCam, mpCodec, mpFrame, mpReport, dqReq, waits,
                   initReq, controls_, is_controls_updated_, requests_, rcpc,
                   rcReq, nSets, merged, uart_fd_, connected_, seq_, mutex_,
                   uinit, uport, upc, ucmd, uafter, usaw, nSends, stops,
                   written>>

\* the buffer is queued again while the frame made from it is still held
FrameRequeue ==
    /\ alive /\ ~fbQueued
    /\ fbQueued' = TRUE
    /\ UNCHANGED <<alive, fd_, output_, capture_, width_, abort_, started,
                   subscribed, outSetup, capSetup, output_buffer_index_,
                   capturing_tasks_, epc, eIdx, eTask, wpc, wex, wIdx, wFrame,
                   devOut, devCap, events, nextMarker, accepted, invoked,
                   rejected, faults, early, lastAlloc, nEvents, handled,
                   published, hw_accel_, format_, cam_fd_, cam_capture_,
                   has_first_keyframe_, frame_buffer_, decoder_, cpc, cBuffer,
                   camQ, nFrames, seen, requeued, staleReads, dpc, cdpc,
                   ctrlFailed, issued, fbMem, fbFrame, fbClone, fbCloned,
                   fbOwned, fbCall, mpCam, mpCodec, mpFrame, mpReport, dqReq,
                   waits, initReq, controls_, is_controls_updated_, requests_,
                   rcpc, rcReq, nSets, merged, uart_fd_, connected_, seq_,
                   mutex_, uinit, uport, upc, ucmd, uafter, usaw, nSends,
                   stops, written>>

\* the device writes into a queued buffer
DeviceWrite ==
    /\ alive /\ fbQueued
    /\ \E m \in Memory : m # fbMem /\ fbMem' = m
    /\ UNCHANGED <<alive, fd_, output_, capture_, width_, abort_, started,
                   subscribed, outSetup, capSetup, output_buffer_index_,
                   capturing_tasks_, epc, eIdx, eTask, wpc, wex, wIdx, wFrame,
                   devOut, devCap, events, nextMarker, accepted, invoked,
                   rejected, faults, early, lastAlloc, nEvents, handled,
                   published, hw_accel_, format_, cam_fd_, cam_capture_,
                   has_first_keyframe_, frame_buffer_, decoder_, cpc, cBuffer,
                   camQ, nFrames, seen, requeued, staleReads, dpc, cdpc,
                   ctrlFailed, issued, fbQueued, fbFrame, fbClone, fbCloned,
                   fbOwned, fbCall, mpCam, mpCodec, mpFrame, mpReport, dqReq,
                   waits, initReq, controls_, is_controls_updated_, requests_,
                   rcpc, rcReq, nSets, merged, uart_fd_, connected_, seq_,
                   mutex_, uinit, uport, upc, ucmd, uafter, usaw, nSends,
                   stops, written>>

\* fbFrame->Clone()
FrameClone ==
    /\ alive /\ fbFrame # NoFrameBuffer
    /\ IF CloneThrows(fbFrame)
       THEN UNCHANGED <<fbClone, fbCloned>>
       ELSE /\ fbClone' = Clone(fbFrame, fbMem)
            /\ fbCloned' = Exposed(fbFrame, fbMem)
    /\ fbCall' = [op |-> "Clone", origin |-> "descriptor", size |-> fbFrame.size_,
                  ok |-> ~CloneThrows(fbFrame), block |-> <<>>]
    /\ UNCHANGED <<alive, fd_, output_, capture_, width_, abort_, started,
                   subscribed, outSetup, capSetup, output_buffer_index_,
                   capturing_tasks_, epc, eIdx, eTask, wpc, wex, wIdx, wFrame,
                   devOut, devCap, events, nextMarker, accepted, invoked,
                   rejected, faults, early, lastAlloc, nEvents, handled,
                   published, hw_accel_, format_, cam_fd_, cam_capture_,
                   has_first_keyframe_, frame_buffer_, decoder_, cpc, cBuffer,
                   camQ, nFrames, seen, requeued, staleReads, dpc, cdpc,
                   ctrlFailed, issued, fbQueued, fbMem, fbFrame, fbOwned,
                   mpCam, mpCodec, mpFrame, mpReport, dqReq, waits, initReq,
                   controls_, is_controls_updated_, requests_, rcpc, rcReq,
                   nSets, merged, uart_fd_, connected_, seq_, mutex_, uinit,
                   uport, upc, ucmd, uafter, usaw, nSends, stops, written>>

\* V4L2FrameBuffer::Create(width, height, size, format)
FrameCreate ==
    /\ alive /\ fbOwned = <<>>
    /\ \E n \in 0..MaxBytes : fbOwned' = <<CreateOwning(n)>>
    /\ UNCHANGED <<alive, fd_, output_, capture_, width_, abort_, started,
                   subscribed, outSetup, capSetup, output_buffer_index_,
                   capturing_tasks_, epc, eIdx, eTask, wpc, wex, wIdx, wFrame,
                   devOut, devCap, events, nextMarker, accepted, invoked,
                   rejected, faults, early, lastAlloc, nEvents, handled,
                   published, hw_accel_, format_, cam_fd_, cam_capture_,
                   has_first_keyframe_, frame_buffer_, decoder_, cpc, cBuffer,
                   camQ, nFrames, seen, requeued, staleReads, dpc, cdpc,
                   ctrlFailed, issued, fbQueued, fbMem, fbFrame, fbClone,
                   fbCloned, fbCall, mpCam, mpCodec, mpFrame, mpReport, dqReq,
                   waits, initReq, controls_, is_controls_updated_, requests_,
                   rcpc, rcReq, nSets, merged, uart_fd_, connected_, seq_,
                   mutex_, uinit, uport, upc, ucmd, uafter, usaw, nSends,
                   stops, written>>

\* MutableData() on the frame made from the descriptor, on the frame created
\* with a size, or on the clone
CallMutableData ==
    /\ alive
    /\ \E origin \in {"descriptor", "size", "clone"} :
         LET f == CASE origin = "descriptor" -> fbFrame
                    [] origin = "size" -> fbOwned[1]
                    [] origin = "clone" -> fbClone
         IN  /\ IF origin = "size" THEN fbOwned # <<>> ELSE f # NoFrameBuffer
             /\ fbCall' = [op |-> "MutableData", origin |-> origin, size |-> f.size_,
                           ok |-> MutableData(f).ok, block |-> MutableData(f).block]
    /\ UNCHANGED <<alive, fd_, output_, capture_, width_, abort_, started,
                   subscribed, outSetup, capSetup, output_buffer_index_,
                   capturing_tasks_, epc, eIdx, eTask, wpc, wex, wIdx, wFrame,
                   devOut, devCap, events, nextMarker, accepted, invoked,
                   rejected, faults, early, lastAlloc, nEvents, handled,
                   published, hw_accel_, format_, cam_fd_, cam_capture_,
                   has_first_keyframe_, frame_buffer_, decoder_, cpc, cBuffer,
                   camQ, nFrames, seen, requeued, staleReads, dpc, cdpc,
                   ctrlFailed, issued, fbQueued, fbMem, fbFrame, fbClone,
                   fbCloned, fbOwned, mpCam, mpCodec, mpFrame, mpReport,
                   dqReq, waits, initReq, controls_, is_controls_updated_,
                   requests_, rcpc, rcReq, nSets, merged, uart_fd_,
                   connected_, seq_, mutex_, uinit, uport, upc, ucmd, uafter,
                   usaw, nSends, stops, written>>

NoCall == [op |-> "none", origin |-> "none", size |-> 0, ok |-> FALSE, block |-> <<>>]

FrameNew ==
    /\ fbQueued = TRUE
    /\ fbMem = [i \in 1..MaxBytes |-> 0]
    /\ fbFrame = NoFrameBuffer
    /\ fbClone = NoFrameBuffer
    /\ fbCloned = Exposed(NoFrameBuffer, <<>>)
    /\ fbOwned = <<>>
    /\ fbCall = NoCall

(* ------------------------- multi-planar buffers ------------------------- *)
\* Plane bookkeeping of a dequeue. Planes are numbered from 1 here (plane p of
\* the source is plane p + 1); VideoMaxPlanes stands for VIDEO_MAX_PLANES.
VideoMaxPlanes == 3
PlaneBuffers == 2
MaxBytesUsed == 2
PlaneIdx == 1..VideoMaxPlanes
NoPlanes == [p \in PlaneIdx |-> 0]

\* the address mmap returns for plane p of buffer i; 0 is nullptr
Addr(i, p) == i * VideoMaxPlanes + p

\* a variant of InitBufferType that upgrades whatever the device reports
InitBufferTypeAlways(type, is_multiplanar) ==
    IF type = "VIDEO_CAPTURE" THEN "CAPTURE_MPLANE"
    ELSE IF type = "VIDEO_OUTPUT" THEN "OUTPUT_MPLANE"
    ELSE type
\* V4L2Util::InitBuffer: a multi-planar device turns VIDEO_CAPTURE into
\* VIDEO_CAPTURE_MPLANE
InitBufferType(type, is_multiplanar) ==
    IF is_multiplanar /\ type = "VIDEO_CAPTURE" THEN "CAPTURE_MPLANE"
    ELSE IF is_multiplanar /\ type = "VIDEO_OUTPUT" THEN "OUTPUT_MPLANE"
    ELSE type

\* V4L2Util::SetFormat: num_planes after the call; a refused S_FMT leaves it
NegotiatedPlanes(type, num_planes, ok, devPlanes) ==
    IF ~ok THEN num_planes
    ELSE IF IsMultiplanar(type) THEN devPlanes ELSE 1

\* V4L2Util::MMap, all mappings granted: plane_start / plane_length of the
\* first num_planes planes of every buffer; start is plane 0's address
MMapPlanes(type, num_planes) ==
    [i \in 0..(PlaneBuffers - 1) |->
        IF IsMultiplanar(type)
        THEN [start |-> IF num_planes > 0 THEN Addr(i, 1) ELSE 0,
              plane_start |-> [p \in PlaneIdx |-> IF p <= num_planes THEN Addr(i, p) ELSE 0],
              plane_length |-> [p \in PlaneIdx |-> IF p <= num_planes THEN MaxBytesUsed ELSE 0],
              plane_bytesused |-> NoPlanes]
        ELSE [start |-> Addr(i, 1), plane_start |-> NoPlanes,
              plane_length |-> NoPlanes, plane_bytesused |-> NoPlanes]]

\* VIDIOC_DQBUF on a multi-planar queue: the device fills as many plane
\* descriptors as the request declares, at most its own plane count
FilledPlanes(planes, declared, report) ==
    [p \in PlaneIdx |-> IF p <= declared /\ p <= Len(report) THEN report[p] ELSE planes[p]]

\* a variant of CopyBytesUsed that takes plane 0 only, as FromV4L2 does
CopyBytesUsedFirst(old, planes, num_planes) ==
    [p \in PlaneIdx |-> IF p <= 1 /\ p <= num_planes THEN planes[p] ELSE old[p]]
\* for (i = 0; i < capture_.num_planes; i++)
\*     cap_buffer.plane_bytesused[i] = buf.m.planes[i].bytesused;
CopyBytesUsed(old, planes, num_planes) ==
    [p \in PlaneIdx |-> IF p <= num_planes THEN planes[p] ELSE old[p]]

\* V4L2Buffer::FromV4L2, then the copy of plane_start / plane_length /
\* plane_bytesused for all VIDEO_MAX_PLANES planes of a multi-planar group
PlaneBuffer(type, cap_buffer, planes, bytesused) ==
    IF IsMultiplanar(type)
    THEN [start |-> cap_buffer.start, length |-> planes[1],
          plane_start |-> cap_buffer.plane_start,
          plane_length |-> cap_buffer.plane_length,
          plane_bytesused |-> cap_buffer.plane_bytesused]
    ELSE [start |-> cap_buffer.start, length |-> bytesused,
          plane_start |-> NoPlanes, plane_length |-> NoPlanes,
          plane_bytesused |-> NoPlanes]

NoPlaneBuffer ==
    [start |-> 0, length |-> 0, plane_start |-> NoPlanes, plane_length |-> NoPlanes,
     plane_bytesused |-> NoPlanes]

\* V4L2Capturer::Initialize: InitBuffer, then SetFormat whose failure is only
\* logged
PlaneInitialize ==
    /\ alive /\ mpCam.type = "NONE"
    /\ \E mp \in BOOLEAN, ok \in BOOLEAN, devPlanes \in PlaneIdx :
         LET type == InitBufferType("VIDEO_CAPTURE", mp)
         IN  mpCam' = [mpCam EXCEPT !.type = type,
                          !.num_planes = NegotiatedPlanes(type, 0, ok, devPlanes)]
    /\ UNCHANGED <<alive, fd_, output_, capture_, width_, abort_, started,
                   subscribed, outSetup, capSetup, output_buffer_index_,
                   capturing_tasks_, epc, eIdx, eTask, wpc, wex, wIdx, wFrame,
                   devOut, devCap, events, nextMarker, accepted, invoked,
                   rejected, faults, early, lastAlloc, nEvents, handled,
                   published, hw_accel_, format_, cam_fd_, cam_capture_,
                   has_first_keyframe_, frame_buffer_, decoder_, cpc, cBuffer,
                   camQ, nFrames, seen, requeued, staleReads, dpc, cdpc,
                   ctrlFailed, issued, fbQueued, fbMem, fbFrame, fbClone,
                   fbCloned, fbOwned, fbCall, mpCodec, mpFrame, mpReport,
                   dqReq, waits, initReq, controls_, is_controls_updated_,
                   requests_, rcpc, rcReq, nSets, merged, uart_fd_,
                   connected_, seq_, mutex_, uinit, uport, upc, ucmd, uafter,
                   usaw, nSends, stops, written>>

\* V4L2Capturer::StartCapture: AllocateBuffer maps the buffers
PlaneAllocate ==
    /\ alive /\ mpCam.type # "NONE" /\ mpCam.buffers = <<>>
    /\ mpCam' = [mpCam EXCEPT !.buffers = MMapPlanes(mpCam.type, mpCam.num_planes)]
    /\ UNCHANGED <<alive, fd_, output_, capture_, width_, abort_, started,
                   subscribed, outSetup, capSetup, output_buffer_index_,
                   capturing_tasks_, epc, eIdx, eTask, wpc, wex, wIdx, wFrame,
                   devOut, devCap, events, nextMarker, accepted, invoked,
                   rejected, faults, early, lastAlloc, nEvents, handled,
                   published, hw_accel_, format_, cam_fd_, cam_capture_,
                   has_first_keyframe_, frame_buffer_, decoder_, cpc, cBuffer,
                   camQ, nFrames, seen, requeued, staleReads, dpc, cdpc,
                   ctrlFailed, issued, fbQueued, fbMem, fbFrame, fbClone,
                   fbCloned, fbOwned, fbCall, mpCodec, mpFrame, mpReport,
                   dqReq, waits, initReq, controls_, is_controls_updated_,
                   requests_, rcpc, rcReq, nSets, merged, uart_fd_,
                   connected_, seq_, mutex_, uinit, uport, upc, ucmd, uafter,
                   usaw, nSends, stops, written>>

\* V4L2Capturer::CaptureImage from the dequeue to the published frame: the
\* request declares num_planes planes and carries VIDEO_MAX_PLANES descriptors
PlaneCapture ==
    /\ alive /\ mpCam.buffers # <<>>
    /\ \E i \in 0..(PlaneBuffers - 1), n \in 1..MaxBytesUsed,
          report \in UNION {[1..k -> 1..MaxBytesUsed] : k \in {mpCam.num_planes}} :
         LET mplane == IsMultiplanar(mpCam.type)
             planes == IF mplane THEN FilledPlanes(NoPlanes, mpCam.num_planes, report)
                       ELSE NoPlanes
             used == IF mplane
                     THEN CopyBytesUsed(mpCam.buffers[i].plane_bytesused, planes,
                                        mpCam.num_planes)
                     ELSE mpCam.buffers[i].plane_bytesused
             cap_buffer == [mpCam.buffers[i] EXCEPT !.plane_bytesused = used]
         IN  /\ mpCam' = [mpCam EXCEPT !.buffers[i] = cap_buffer]
             /\ mpFrame' = PlaneBuffer(mpCam.type, cap_buffer, planes, n)
             /\ mpReport' = [idx |-> i, bytesused |-> IF mplane THEN report ELSE <<n>>]
             /\ dqReq' = [by |-> "CaptureImage",
                          declared |-> IF mplane THEN mpCam.num_planes ELSE 0,
                          provided |-> IF mplane THEN VideoMaxPlanes ELSE 0]
    /\ UNCHANGED <<alive, fd_, output_, capture_, width_, abort_, started,
                   subscribed, outSetup, capSetup, output_buffer_index_,
                   capturing_tasks_, epc, eIdx, eTask, wpc, wex, wIdx, wFrame,
                   devOut, devCap, events, nextMarker, accepted, invoked,
                   rejected, faults, early, lastAlloc, nEvents, handled,
                   published, hw_accel_, format_, cam_fd_, cam_capture_,
                   has_first_keyframe_, frame_buffer_, decoder_, cpc, cBuffer,
                   camQ, nFrames, seen, requeued, staleReads, dpc, cdpc,
                   ctrlFailed, issued, fbQueued, fbMem, fbFrame, fbClone,
                   fbCloned, fbOwned, fbCall, mpCodec, waits, initReq,
                   controls_, is_controls_updated_, requests_, rcpc, rcReq,
                   nSets, merged, uart_fd_, connected_, seq_, mutex_, uinit,
                   uport, upc, ucmd, uafter, usaw, nSends, stops, written>>

\* the codec's groups are multi-planar; SetFormat stores the plane count the
\* device returns
CodecNegotiate ==
    /\ alive
    /\ \E g \in {"output", "capture"}, ok \in BOOLEAN, devPlanes \in PlaneIdx :
         /\ mpCodec[g] = 0
         /\ mpCodec' = [mpCodec EXCEPT
                          ![g] = NegotiatedPlanes(IF g = "output" THEN "OUTPUT_MPLANE"
                                                  ELSE "CAPTURE_MPLANE", @, ok, devPlanes)]
    /\ UNCHANGED <<alive, fd_, output_, capture_, width_, abort_, started,
                   subscribed, outSetup, capSetup, output_buffer_index_,
                   capturing_tasks_, epc, eIdx, eTask, wpc, wex, wIdx, wFrame,
                   devOut, devCap, events, nextMarker, accepted, invoked,
                   rejected, faults, early, lastAlloc, nEvents, handled,
                   published, hw_accel_, format_, cam_fd_, cam_capture_,
                   has_first_keyframe_, frame_buffer_, decoder_, cpc, cBuffer,
                   camQ, nFrames, seen, requeued, staleReads, dpc, cdpc,
                   ctrlFailed, issued, fbQueued, fbMem, fbFrame, fbClone,
                   fbCloned, fbOwned, fbCall, mpCam, mpFrame, mpReport, dqReq,
                   waits, initReq, controls_, is_controls_updated_, requests_,
                   rcpc, rcReq, nSets, merged, uart_fd_, connected_, seq_,
                   mutex_, uinit, uport, upc, ucmd, uafter, usaw, nSends,
                   stops, written>>

\* V4L2Codec::CaptureBuffer, either dequeue: buf.length = num_planes and
\* buf.m.planes = &planes, one v4l2_plane on the stack
CodecDequeue ==
    /\ alive
    /\ \E g \in {"output", "capture"} :
         /\ mpCodec[g] > 0
         /\ dqReq' = [by |-> g, declared |-> mpCodec[g], provided |-> 1]
    /\ UNCHANGED <<alive, fd_, output_, capture_, width_, abort_, started,
                   subscribed, outSetup, capSetup, output_buffer_index_,
                   capturing_tasks_, epc, eIdx, eTask, wpc, wex, wIdx, wFrame,
                   devOut, devCap, events, nextMarker, accepted, invoked,
                   rejected, faults, early, lastAlloc, nEvents, handled,
                   published, hw_accel_, format_, cam_fd_, cam_capture_,
                   has_first_keyframe_, frame_buffer_, decoder_, cpc, cBuffer,
                   camQ, nFrames, seen, requeued, staleReads, dpc, cdpc,
                   ctrlFailed, issued, fbQueued, fbMem, fbFrame, fbClone,
                   fbCloned, fbOwned, fbCall, mpCam, mpCodec, mpFrame,
                   mpReport, waits, initReq, controls_, is_controls_updated_,
                   requests_, rcpc, rcReq, nSets, merged, uart_fd_,
                   connected_, seq_, mutex_, uinit, uport, upc, ucmd, uafter,
                   usaw, nSends, stops, written>>

PlanesNew ==
    /\ mpCam = [type |-> "NONE", num_planes |-> 0, buffers |-> <<>>]
    /\ mpCodec = [output |-> 0, capture |-> 0]
    /\ mpFrame = NoPlaneBuffer
    /\ mpReport = [idx |-> 0, bytesused |-> <<>>]
    /\ dqReq = [by |-> "none", declared |-> 0, provided |-> 0]

(* ------------------- V4L2Util::InitBuffer on a device ------------------- *)
\* the capability bits VIDIOC_QUERYCAP may report
CapBits == {"VIDEO_CAPTURE", "VIDEO_OUTPUT", "VIDEO_CAPTURE_MPLANE",
            "VIDEO_OUTPUT_MPLANE", "STREAMING", "VIDEO_M2M", "VIDEO_M2M_MPLANE"}
BufTypes == {"VIDEO_CAPTURE", "VIDEO_OUTPUT", "CAPTURE_MPLANE", "OUTPUT_MPLANE"}

\* V4L2Util::IsMultiPlaneVideo
IsMultiPlaneVideo(caps) ==
    \/ /\ caps \cap {"VIDEO_CAPTURE_MPLANE", "VIDEO_OUTPUT_MPLANE"} # {}
       /\ "STREAMING" \in caps
    \/ "VIDEO_M2M_MPLANE" \in caps

\* V4L2Util::InitBuffer with the capabilities the device reports: the type is
\* adjusted before it is stored
InitBufferOn(g, type, memory, has_dmafd, capOk, caps) ==
    InitBuffer(g, InitBufferType(type, IsMultiPlaneVideo(caps)), memory, has_dmafd, capOk)

\* V4L2Util::InitBuffer(fd_, &capture_, type, memory, has_dmafd)
CallInitBuffer ==
    /\ alive /\ fd_
    /\ \E type \in BufTypes, memory \in Memories, capOk \in BOOLEAN,
          caps \in SUBSET CapBits :
         /\ capture_' = InitBufferOn(NewGroup("NONE", "MMAP"), type, memory, FALSE,
                                     capOk, caps).g
         /\ initReq' = [type |-> type, caps |-> caps, capOk |-> capOk]
    /\ UNCHANGED <<alive, fd_, output_, width_, abort_, started, subscribed,
                   outSetup, capSetup, output_buffer_index_, capturing_tasks_,
                   epc, eIdx, eTask, wpc, wex, wIdx, wFrame, devOut, devCap,
                   events, nextMarker, accepted, invoked, rejected, faults,
                   early, lastAlloc, nEvents, handled, published, hw_accel_,
                   format_, cam_fd_, cam_capture_, has_first_keyframe_,
                   frame_buffer_, decoder_, cpc, cBuffer, camQ, nFrames, seen,
                   requeued, staleReads, dpc, cdpc, ctrlFailed, issued,
                   fbQueued, fbMem, fbFrame, fbClone, fbCloned, fbOwned,
                   fbCall, mpCam, mpCodec, mpFrame, mpReport, dqReq, waits,
                   controls_, is_controls_updated_, requests_, rcpc, rcReq,
                   nSets, merged, uart_fd_, connected_, seq_, mutex_, uinit,
                   uport, upc, ucmd, uafter, usaw, nSends, stops, written>>

(* -------------------------- LibcameraCapturer --------------------------- *)
\* The control path of the libcamera capturer after StartCapture: SetControls
\* on a caller's thread, RequestComplete on the camera's thread. Both take
\* control_mutex_ for the whole of what they do with controls_ and the flag, so
\* each locked block is one step.
RequestCount == 2
MaxSets == 2
CtrlKeys == {1, 2}
CtrlValues == {1, 2}
NoControls == [k \in CtrlKeys |-> 0]

\* LibcameraCapturer::SetControls
LcSetControls ==
    /\ alive /\ nSets < MaxSets
    /\ \E key \in CtrlKeys, value \in CtrlValues :
         controls_' = [controls_ EXCEPT ![key] = value]
    /\ is_controls_updated_' = TRUE
    /\ nSets' = nSets + 1
    /\ UNCHANGED <<alive, fd_, output_, capture_, width_, abort_, started,
                   subscribed, outSetup, capSetup, output_buffer_index_,
                   capturing_tasks_, epc, eIdx, eTask, wpc, wex, wIdx, wFrame,
                   devOut, devCap, events, nextMarker, accepted, invoked,
                   rejected, faults, early, lastAlloc, nEvents, handled,
                   published, hw_accel_, format_, cam_fd_, cam_capture_,
                   has_first_keyframe_, frame_buffer_, decoder_, cpc, cBuffer,
                   camQ, nFrames, seen, requeued, staleReads, dpc, cdpc,
                   ctrlFailed, issued, fbQueued, fbMem, fbFrame, fbClone,
                   fbCloned, fbOwned, fbCall, mpCam, mpCodec, mpFrame,
                   mpReport, dqReq, waits, initReq, requests_, rcpc, rcReq,
                   merged, uart_fd_, connected_, seq_, mutex_, uinit, uport,
                   upc, ucmd, uafter, usaw, nSends, stops, written>>

\* the camera finishes a queued request, or cancels it, and emits
\* requestCompleted
CameraComplete ==
    /\ alive /\ rcpc = "idle"
    /\ \E r \in 1..RequestCount, status \in {"complete", "cancelled"} :
         /\ requests_[r].state = "queued"
         /\ requests_' = [requests_ EXCEPT ![r].state = "completed",
                                           ![r].status = status]
         /\ rcReq' = r
    /\ rcpc' = "begin"
    /\ UNCHANGED <<alive, fd_, output_, capture_, width_, abort_, started,
                   subscribed, outSetup, capSetup, output_buffer_index_,
                   capturing_tasks_, epc, eIdx, eTask, wpc, wex, wIdx, wFrame,
                   devOut, devCap, events, nextMarker, accepted, invoked,
                   rejected, faults, early, lastAlloc, nEvents, handled,
                   published, hw_accel_, format_, cam_fd_, cam_capture_,
                   has_first_keyframe_, frame_buffer_, decoder_, cpc, cBuffer,
                   camQ, nFrames, seen, requeued, staleReads, dpc, cdpc,
                   ctrlFailed, issued, fbQueued, fbMem, fbFrame, fbClone,
                   fbCloned, fbOwned, fbCall, mpCam, mpCodec, mpFrame,
                   mpReport, dqReq, waits, initReq, controls_,
                   is_controls_updated_, nSets, merged, uart_fd_, connected_,
                   seq_, mutex_, uinit, uport, upc, ucmd, uafter, usaw,
                   nSends, stops, written>>

\* RequestComplete up to request->reuse(ReuseBuffers): a cancelled request
\* ends the process; otherwise the frame is published and the request reset,
\* which may or may not keep the controls it carried
RcPublish ==
    /\ alive /\ rcpc = "begin"
    /\ IF requests_[rcReq].status = "cancelled"
       THEN /\ alive' = FALSE
            /\ UNCHANGED <<requests_, rcpc>>
       ELSE /\ \E kept \in BOOLEAN :
                 requests_' = [requests_ EXCEPT
                                 ![rcReq].controls = IF kept THEN @ ELSE NoControls]
            /\ rcpc' = "merge"
            /\ UNCHANGED alive
    /\ UNCHANGED <<fd_, output_, capture_, width_, abort_, started,
                   subscribed, outSetup, capSetup, output_buffer_index_,
                   capturing_tasks_, epc, eIdx, eTask, wpc, wex, wIdx, wFrame,
                   devOut, devCap, events, nextMarker, accepted, invoked,
                   rejected, faults, early, lastAlloc, nEvents, handled,
                   published, hw_accel_, format_, cam_fd_, cam_capture_,
                   has_first_keyframe_, frame_buffer_, decoder_, cpc, cBuffer,
                   camQ, nFrames, seen, requeued, staleReads, dpc, cdpc,
                   ctrlFailed, issued, fbQueued, fbMem, fbFrame, fbClone,
                   fbCloned, fbOwned, fbCall, mpCam, mpCodec, mpFrame,
                   mpReport, dqReq, waits, initReq, controls_,
                   is_controls_updated_, rcReq, nSets, merged, uart_fd_,
                   connected_, seq_, mutex_, uinit, uport, upc, ucmd, uafter,
                   usaw, nSends, stops, written>>

\* a variant of RcMerge that clears the flag and leaves the request alone
RcMergeFlagOnly ==
    /\ alive /\ rcpc = "merge"
    /\ is_controls_updated_' = FALSE
    /\ rcpc' = "queue"
    /\ UNCHANGED <<alive, fd_, output_, capture_, width_, abort_, started,
                   subscribed, outSetup, capSetup, output_buffer_index_,
                   capturing_tasks_, epc, eIdx, eTask, wpc, wex, wIdx, wFrame,
                   devOut, devCap, events, nextMarker, accepted, invoked,
                   rejected, faults, early, lastAlloc, nEvents, handled,
                   published, hw_accel_, format_, cam_fd_, cam_capture_,
                   has_first_keyframe_, frame_buffer_, decoder_, cpc, cBuffer,
                   camQ, nFrames, seen, requeued, staleReads, dpc, cdpc,
                   ctrlFailed, issued, fbQueued, fbMem, fbFrame, fbClone,
                   fbCloned, fbOwned, fbCall, mpCam, mpCodec, mpFrame,
                   mpReport, dqReq, waits, initReq, controls_, requests_,
                   rcReq, nSets, merged, uart_fd_, connected_, seq_, mutex_,
                   uinit, uport, upc, ucmd, uafter, usaw, nSends, stops,
                   written>>
\* { lock; if (is_controls_updated_) { request->controls().clear();
\*   request->controls().merge(controls_); is_controls_updated_ = false; } }
RcMerge ==
    /\ alive /\ rcpc = "merge"
    /\ IF is_controls_updated_
       THEN /\ requests_' = [requests_ EXCEPT ![rcReq].controls = controls_]
            /\ merged' = controls_
            /\ is_controls_updated_' = FALSE
       ELSE UNCHANGED <<requests_, merged, is_controls_updated_>>
    /\ rcpc' = "queue"
    /\ UNCHANGED <<alive, fd_, output_, capture_, width_, abort_, started,
                   subscribed, outSetup, capSetup, output_buffer_index_,
                   capturing_tasks_, epc, eIdx, eTask, wpc, wex, wIdx, wFrame,
                   devOut, devCap, events, nextMarker, accepted, invoked,
                   rejected, faults, early, lastAlloc, nEvents, handled,
                   published, hw_accel_, format_, cam_fd_, cam_capture_,
                   has_first_keyframe_, frame_buffer_, decoder_, cpc, cBuffer,
                   camQ, nFrames, seen, requeued, staleReads, dpc, cdpc,
                   ctrlFailed, issued, fbQueued, fbMem, fbFrame, fbClone,
                   fbCloned, fbOwned, fbCall, mpCam, mpCodec, mpFrame,
                   mpReport, dqReq, waits, initReq, controls_, rcReq, nSets,
                   uart_fd_, connected_, seq_, mutex_, uinit, uport, upc,
                   ucmd, uafter, usaw, nSends, stops, written>>

\* camera_->queueRequest(request);
RcQueue ==
    /\ alive /\ rcpc = "queue"
    /\ requests_' = [requests_ EXCEPT ![rcReq].state = "queued"]
    /\ rcpc' = "idle"
    /\ UNCHANGED <<alive, fd_, output_, capture_, width_, abort_, started,
                   subscribed, outSetup, capSetup, output_buffer_index_,
                   capturing_tasks_, epc, eIdx, eTask, wpc, wex, wIdx, wFrame,
                   devOut, devCap, events, nextMarker, accepted, invoked,
                   rejected, faults, early, lastAlloc, nEvents, handled,
                   published, hw_accel_, format_, cam_fd_, cam_capture_,
                   has_first_keyframe_, frame_buffer_, decoder_, cpc, cBuffer,
                   camQ, nFrames, seen, requeued, staleReads, dpc, cdpc,
                   ctrlFailed, issued, fbQueued, fbMem, fbFrame, fbClone,
                   fbCloned, fbOwned, fbCall, mpCam, mpCodec, mpFrame,
                   mpReport, dqReq, waits, initReq, controls_,
                   is_controls_updated_, rcReq, nSets, merged, uart_fd_,
                   connected_, seq_, mutex_, uinit, uport, upc, ucmd, uafter,
                   usaw, nSends, stops, written>>

\* after StartCapture: controls_ cleared, every request queued
LibcameraNew ==
    /\ controls_ = NoControls
    /\ is_controls_updated_ = FALSE
    /\ requests_ = [r \in 1..RequestCount |->
                      [state |-> "queued", status |-> "complete", controls |-> NoControls]]
    /\ rcpc = "idle" /\ rcReq = 1
    /\ nSets = 0
    /\ merged = NoControls

(* ---------------------------- UartController ---------------------------- *)
\* One controller, shared by the threads that deliver control messages and the
\* thread that destroys the conductor. SendCommand tests connected_ and fd_
\* before it takes mutex_; ClosePort takes no lock. Each read or write of a
\* member outside the lock is a step of its own.
Stopper == "stop"
Senders == {"send1", "send2"}
UartThreads == {Stopper} \cup Senders
MaxSends == 2
MaxStops == 2
PortFd == 3
SeqModulus == 65536
Commands == {[throttle |-> 0, steer |-> 0], [throttle |-> 1, steer |-> 1]}
StopCommand == [throttle |-> 0, steer |-> 0]

\* where a thread goes on when SendCommand returns
AfterSend(t) == IF t = Stopper THEN "sleep" ELSE "idle"

\* UartController::Create: the constructor, then Init()
UartInit ==
    /\ uinit = "new"
    /\ \E openOk \in BOOLEAN, cfgOk \in BOOLEAN :
         IF ~openOk
         THEN UNCHANGED <<uart_fd_, connected_, uport>>
         ELSE IF ~cfgOk
              THEN /\ uport' = "closed"
                   /\ UNCHANGED <<uart_fd_, connected_>>
              ELSE /\ uart_fd_' = PortFd
                   /\ connected_' = TRUE
                   /\ uport' = "open"
    /\ uinit' = "done"
    /\ UNCHANGED <<alive, fd_, output_, capture_, width_, abort_, started,
                   subscribed, outSetup, capSetup, output_buffer_index_,
                   capturing_tasks_, epc, eIdx, eTask, wpc, wex, wIdx, wFrame,
                   devOut, devCap, events, nextMarker, accepted, invoked,
                   rejected, faults, early, lastAlloc, nEvents, handled,
                   published, hw_accel_, format_, cam_fd_, cam_capture_,
                   has_first_keyframe_, frame_buffer_, decoder_, cpc, cBuffer,
                   camQ, nFrames, seen, requeued, staleReads, dpc, cdpc,
                   ctrlFailed, issued, fbQueued, fbMem, fbFrame, fbClone,
                   fbCloned, fbOwned, fbCall, mpCam, mpCodec, mpFrame,
                   mpReport, dqReq, waits, initReq, controls_,
                   is_controls_updated_, requests_, rcpc, rcReq, nSets,
                   merged, seq_, mutex_, upc, ucmd, uafter, usaw, nSends,
                   stops, written>>

\* a thread calls SendCommand(throttle, steer)
SendCall(t) ==
    /\ uinit = "done" /\ upc[t] = "idle" /\ nSends < MaxSends
    /\ \E c \in Commands : ucmd' = [ucmd EXCEPT ![t] = c]
    /\ uafter' = [uafter EXCEPT ![t] = stops > 0]
    /\ upc' = [upc EXCEPT ![t] = "check"]
    /\ nSends' = nSends + 1
    /\ UNCHANGED <<alive, fd_, output_, capture_, width_, abort_, started,
                   subscribed, outSetup, capSetup, output_buffer_index_,
                   capturing_tasks_, epc, eIdx, eTask, wpc, wex, wIdx, wFrame,
                   devOut, devCap, events, nextMarker, accepted, invoked,
                   rejected, faults, early, lastAlloc, nEvents, handled,
                   published, hw_accel_, format_, cam_fd_, cam_capture_,
                   has_first_keyframe_, frame_buffer_, decoder_, cpc, cBuffer,
                   camQ, nFrames, seen, requeued, staleReads, dpc, cdpc,
                   ctrlFailed, issued, fbQueued, fbMem, fbFrame, fbClone,
                   fbCloned, fbOwned, fbCall, mpCam, mpCodec, mpFrame,
                   mpReport, dqReq, waits, initReq, controls_,
                   is_controls_updated_, requests_, rcpc, rcReq, nSets,
                   merged, uart_fd_, connected_, seq_, mutex_, uinit, uport,
                   usaw, stops, written>>

\* if (!connected_ || fd_ < 0) return;
SendCheck(t) ==
    /\ upc[t] = "check"
    /\ upc' = [upc EXCEPT ![t] = IF ~connected_ \/ uart_fd_ < 0
                                 THEN AfterSend(t) ELSE "lock"]
    /\ UNCHANGED <<alive, fd_, output_, capture_, width_, abort_, started,
                   subscribed, outSetup, capSetup, output_buffer_index_,
                   capturing_tasks_, epc, eIdx, eTask, wpc, wex, wIdx, wFrame,
                   devOut, devCap, events, nextMarker, accepted, invoked,
                   rejected, faults, early, lastAlloc, nEvents, handled,
                   published, hw_accel_, format_, cam_fd_, cam_capture_,
                   has_first_keyframe_, frame_buffer_, decoder_, cpc, cBuffer,
                   camQ, nFrames, seen, requeued, staleReads, dpc, cdpc,
                   ctrlFailed, issued, fbQueued, fbMem, fbFrame, fbClone,
                   fbCloned, fbOwned, fbCall, mpCam, mpCodec, mpFrame,
                   mpReport, dqReq, waits, initReq, controls_,
                   is_controls_updated_, requests_, rcpc, rcReq, nSets,
                   merged, uart_fd_, connected_, seq_, mutex_, uinit, uport,
                   ucmd, uafter, usaw, nSends, stops, written>>

\* std::lock_guard<std::mutex> lock(mutex_);
SendLock(t) ==
    /\ upc[t] = "lock" /\ mutex_ = "free"
    /\ mutex_' = t
    /\ upc' = [upc EXCEPT ![t] = "write"]
    /\ UNCHANGED <<alive, fd_, output_, capture_, width_, abort_, started,
                   subscribed, outSetup, capSetup, output_buffer_index_,
                   capturing_tasks_, epc, eIdx, eTask, wpc, wex, wIdx, wFrame,
                   devOut, devCap, events, nextMarker, accepted, invoked,
                   rejected, faults, early, lastAlloc, nEvents, handled,
                   published, hw_accel_, format_, cam_fd_, cam_capture_,
                   has_first_keyframe_, frame_buffer_, decoder_, cpc, cBuffer,
                   camQ, nFrames, seen, requeued, staleReads, dpc, cdpc,
                   ctrlFailed, issued, fbQueued, fbMem, fbFrame, fbClone,
                   fbCloned, fbOwned, fbCall, mpCam, mpCodec, mpFrame,
                   mpReport, dqReq, waits, initReq, controls_,
                   is_controls_updated_, requests_, rcpc, rcReq, nSets,
                   merged, uart_fd_, connected_, seq_, uinit, uport, ucmd,
                   uafter, usaw, nSends, stops, written>>

\* seq_ = (seq_ + 1) & 0xFFFF; write(fd_, cmd, len);
SendWrite(t) ==
    /\ upc[t] = "write"
    /\ seq_' = (seq_ + 1) % SeqModulus
    /\ written' = Append(written, [by |-> t, cmd |-> ucmd[t], fd |-> uart_fd_,
                                   port |-> IF uart_fd_ = PortFd THEN uport ELSE "none",
                                   after |-> uafter[t], stop |-> stops])
    /\ upc' = [upc EXCEPT ![t] = "unlock"]
    /\ UNCHANGED <<alive, fd_, output_, capture_, width_, abort_, started,
                   subscribed, outSetup, capSetup, output_buffer_index_,
                   capturing_tasks_, epc, eIdx, eTask, wpc, wex, wIdx, wFrame,
                   devOut, devCap, events, nextMarker, accepted, invoked,
                   rejected, faults, early, lastAlloc, nEvents, handled,
                   published, hw_accel_, format_, cam_fd_, cam_capture_,
                   has_first_keyframe_, frame_buffer_, decoder_, cpc, cBuffer,
                   camQ, nFrames, seen, requeued, staleReads, dpc, cdpc,
                   ctrlFailed, issued, fbQueued, fbMem, fbFrame, fbClone,
                   fbCloned, fbOwned, fbCall, mpCam, mpCodec, mpFrame,
                   mpReport, dqReq, waits, initReq, controls_,
                   is_controls_updated_, requests_, rcpc, rcReq, nSets,
                   merged, uart_fd_, connected_, mutex_, uinit, uport, ucmd,
                   uafter, usaw, nSends, stops>>

\* the lock_guard's destructor; SendCommand returns
SendUnlock(t) ==
    /\ upc[t] = "unlock"
    /\ mutex_' = "free"
    /\ upc' = [upc EXCEPT ![t] = AfterSend(t)]
    /\ UNCHANGED <<alive, fd_, output_, capture_, width_, abort_, started,
                   subscribed, outSetup, capSetup, output_buffer_index_,
                   capturing_tasks_, epc, eIdx, eTask, wpc, wex, wIdx, wFrame,
                   devOut, devCap, events, nextMarker, accepted, invoked,
                   rejected, faults, early, lastAlloc, nEvents, handled,
                   published, hw_accel_, format_, cam_fd_, cam_capture_,
                   has_first_keyframe_, frame_buffer_, decoder_, cpc, cBuffer,
                   camQ, nFrames, seen, requeued, staleReads, dpc, cdpc,
                   ctrlFailed, issued, fbQueued, fbMem, fbFrame, fbClone,
                   fbCloned, fbOwned, fbCall, mpCam, mpCodec, mpFrame,
                   mpReport, dqReq, waits, initReq, controls_,
                   is_controls_updated_, requests_, rcpc, rcReq, nSets,
                   merged, uart_fd_, connected_, seq_, uinit, uport, ucmd,
                   uafter, usaw, nSends, stops, written>>

\* Stop(): if (connected_) { SendCommand(0, 0); ...
StopCall ==
    /\ uinit = "done" /\ upc[Stopper] = "idle" /\ stops < MaxStops
    /\ usaw' = connected_
    /\ IF connected_
       THEN /\ ucmd' = [ucmd EXCEPT ![Stopper] = StopCommand]
            /\ uafter' = [uafter EXCEPT ![Stopper] = stops > 0]
            /\ upc' = [upc EXCEPT ![Stopper] = "check"]
       ELSE /\ upc' = [upc EXCEPT ![Stopper] = "close"]
            /\ UNCHANGED <<ucmd, uafter>>
    /\ UNCHANGED <<alive, fd_, output_, capture_, width_, abort_, started,
                   subscribed, outSetup, capSetup, output_buffer_index_,
                   capturing_tasks_, epc, eIdx, eTask, wpc, wex, wIdx, wFrame,
                   devOut, devCap, events, nextMarker, accepted, invoked,
                   rejected, faults, early, lastAlloc, nEvents, handled,
                   published, hw_accel_, format_, cam_fd_, cam_capture_,
                   has_first_keyframe_, frame_buffer_, decoder_, cpc, cBuffer,
                   camQ, nFrames, seen, requeued, staleReads, dpc, cdpc,
                   ctrlFailed, issued, fbQueued, fbMem, fbFrame, fbClone,
                   fbCloned, fbOwned, fbCall, mpCam, mpCodec, mpFrame,
                   mpReport, dqReq, waits, initReq, controls_,
                   is_controls_updated_, requests_, rcpc, rcReq, nSets,
                   merged, uart_fd_, connected_, seq_, mutex_, uinit, uport,
                   nSends, stops, written>>

\* usleep(100000);
StopSleep ==
    /\ upc[Stopper] = "sleep"
    /\ upc' = [upc EXCEPT ![Stopper] = "close"]
    /\ UNCHANGED <<alive, fd_, output_, capture_, width_, abort_, started,
                   subscribed, outSetup, capSetup, output_buffer_index_,
                   capturing_tasks_, epc, eIdx, eTask, wpc, wex, wIdx, wFrame,
                   devOut, devCap, events, nextMarker, accepted, invoked,
                   rejected, faults, early, lastAlloc, nEvents, handled,
                   published, hw_accel_, format_, cam_fd_, cam_capture_,
                   has_first_keyframe_, frame_buffer_, decoder_, cpc, cBuffer,
                   camQ, nFrames, seen, requeued, staleReads, dpc, cdpc,
                   ctrlFailed, issued, fbQueued, fbMem, fbFrame, fbClone,
                   fbCloned, fbOwned, fbCall, mpCam, mpCodec, mpFrame,
                   mpReport, dqReq, waits, initReq, controls_,
                   is_controls_updated_, requests_, rcpc, rcReq, nSets,
                   merged, uart_fd_, connected_, seq_, mutex_, uinit, uport,
                   ucmd, uafter, usaw, nSends, stops, written>>

\* ClosePort(): if (fd_ >= 0) { close(fd_);
StopClose ==
    /\ upc[Stopper] = "close"
    /\ IF uart_fd_ >= 0
       THEN /\ uport' = "closed"
            /\ upc' = [upc EXCEPT ![Stopper] = "clear_fd"]
            /\ UNCHANGED stops
       ELSE /\ upc' = [upc EXCEPT ![Stopper] = "idle"]
            /\ stops' = stops + 1
            /\ UNCHANGED uport
    /\ UNCHANGED <<alive, fd_, output_, capture_, width_, abort_, started,
                   subscribed, outSetup, capSetup, output_buffer_index_,
                   capturing_tasks_, epc, eIdx, eTask, wpc, wex, wIdx, wFrame,
                   devOut, devCap, events, nextMarker, accepted, invoked,
                   rejected, faults, early, lastAlloc, nEvents, handled,
                   published, hw_accel_, format_, cam_fd_, cam_capture_,
                   has_first_keyframe_, frame_buffer_, decoder_, cpc, cBuffer,
                   camQ, nFrames, seen, requeued, staleReads, dpc, cdpc,
                   ctrlFailed, issued, fbQueued, fbMem, fbFrame, fbClone,
                   fbCloned, fbOwned, fbCall, mpCam, mpCodec, mpFrame,
                   mpReport, dqReq, waits, initReq, controls_,
                   is_controls_updated_, requests_, rcpc, rcReq, nSets,
                   merged, uart_fd_, connected_, seq_, mutex_, uinit, ucmd,
                   uafter, usaw, nSends, written>>

\* fd_ = -1;
StopClearFd ==
    /\ upc[Stopper] = "clear_fd"
    /\ uart_fd_' = -1
    /\ upc' = [upc EXCEPT ![Stopper] = "clear_connected"]
    /\ UNCHANGED <<alive, fd_, output_, capture_, width_, abort_, started,
                   subscribed, outSetup, capSetup, output_buffer_index_,
                   capturing_tasks_, epc, eIdx, eTask, wpc, wex, wIdx, wFrame,
                   devOut, devCap, events, nextMarker, accepted, invoked,
                   rejected, faults, early, lastAlloc, nEvents, handled,
                   published, hw_accel_, format_, cam_fd_, cam_capture_,
                   has_first_keyframe_, frame_buffer_, decoder_, cpc, cBuffer,
                   camQ, nFrames, seen, requeued, staleReads, dpc, cdpc,
                   ctrlFailed, issued, fbQueued, fbMem, fbFrame, fbClone,
                   fbCloned, fbOwned, fbCall, mpCam, mpCodec, mpFrame,
                   mpReport, dqReq, waits, initReq, controls_,
                   is_controls_updated_, requests_, rcpc, rcReq, nSets,
                   merged, connected_, seq_, mutex_, uinit, uport, ucmd,
                   uafter, usaw, nSends, stops, written>>

\* connected_ = false; }   Stop returns
StopClearConnected ==
    /\ upc[Stopper] = "clear_connected"
    /\ connected_' = FALSE
    /\ stops' = stops + 1
    /\ upc' = [upc EXCEPT ![Stopper] = "idle"]
    /\ UNCHANGED <<alive, fd_, output_, capture_, width_, abort_, started,
                   subscribed, outSetup, capSetup, output_buffer_index_,
                   capturing_tasks_, epc, eIdx, eTask, wpc, wex, wIdx, wFrame,
                   devOut, devCap, events, nextMarker, accepted, invoked,
                   rejected, faults, early, lastAlloc, nEvents, handled,
                   published, hw_accel_, format_, cam_fd_, cam_capture_,
                   has_first_keyframe_, frame_buffer_, decoder_, cpc, cBuffer,
                   camQ, nFrames, seen, requeued, staleReads, dpc, cdpc,
                   ctrlFailed, issued, fbQueued, fbMem, fbFrame, fbClone,
                   fbCloned, fbOwned, fbCall, mpCam, mpCodec, mpFrame,
                   mpReport, dqReq, waits, initReq, controls_,
                   is_controls_updated_, requests_, rcpc, rcReq, nSets,
                   merged, uart_fd_, seq_, mutex_, uinit, uport, ucmd, uafter,
                   usaw, nSends, written>>

\* the constructor: fd_(-1), seq_(0), connected_(false)
UartNew ==
    /\ uart_fd_ = -1 /\ connected_ = FALSE /\ seq_ = 0 /\ mutex_ = "free"
    /\ uinit = "new" /\ uport = "never"
    /\ upc = [t \in UartThreads |-> "idle"]
    /\ ucmd = [t \in UartThreads |-> StopCommand]
    /\ uafter = [t \in UartThreads |-> FALSE]
    /\ usaw = FALSE
    /\ nSends = 0 /\ stops = 0
    /\ written = <<>>

(* --------------------------- specification ------------------------------ *)
\* a codec object nobody has set up
CodecNew ==
    /\ fd_ = FALSE
    /\ width_ = ZeroGeom
    /\ abort_ = FALSE
    /\ started = FALSE
    /\ subscribed = FALSE
    /\ outSetup = "none" /\ capSetup = "none"
    /\ output_buffer_index_ = <<>>
    /\ capturing_tasks_ = <<>>
    /\ epc = "idle" /\ eIdx = 0 /\ eTask = NoTask
    /\ wpc = "none" /\ wex = FALSE /\ wIdx = 0 /\ wFrame = NoFrame
    /\ devOut = NewQueue /\ devCap = NewQueue
    /\ events = <<>>
    /\ nEvents = 0
    /\ handled = "none"
    /\ dpc = "none"

\* V4L2Capturer::V4L2Capturer
CapturerNew ==
    /\ cam_fd_ = FALSE
    /\ cam_capture_ = NewGroup("NONE", "MMAP")
    /\ has_first_keyframe_ = FALSE
    /\ frame_buffer_ = NoFrame
    /\ decoder_ = FALSE
    /\ cpc = "none" /\ cBuffer = NoBuffer
    /\ camQ = NewQueue
    /\ nFrames = 0
    /\ cdpc = "none"
    /\ ctrlFailed = {}

HistoryNew ==
    /\ alive = TRUE
    /\ nextMarker = 1
    /\ accepted = <<>> /\ invoked = <<>> /\ rejected = {}
    /\ faults = 0 /\ early = FALSE
    /\ lastAlloc = [requested |-> 0, granted |-> 0, ok |-> FALSE, num_buffers |-> 0]
    /\ published = <<>>
    /\ seen = <<>> /\ requeued = {} /\ staleReads = {}
    /\ issued = [op |-> "none", ok |-> TRUE, calls |-> <<>>]
    /\ waits = <<>>
    /\ initReq = [type |-> "none", caps |-> {}, capOk |-> FALSE]

\* a codec pipeline on its own: type and memory of its groups hold whatever
\* the constructor left there
Init ==
    /\ CodecNew /\ CapturerNew /\ HistoryNew /\ FrameNew /\ PlanesNew /\ LibcameraNew
    /\ UartNew
    /\ \E t \in UninitTypes, m \in Memories : output_ = NewGroup(t, m)
    /\ \E t \in UninitTypes, m \in Memories : capture_ = NewGroup(t, m)
    /\ hw_accel_ = FALSE /\ format_ = "YUV420"

Next ==
    \/ Open \/ SetupOutputBuffer \/ SetupCaptureBuffer \/ SubscribeEvent \/ Start
    \/ SetAbort
    \/ Submit \/ EmplacePop \/ EmplaceQueue \/ EmplacePush
    \/ WorkerTop \/ SelectNone \/ SelectReady \/ DequeueOutput \/ PushIndex
    \/ DequeueCapture \/ RunTask \/ RequeueCapture \/ HandleEvent
    \/ StopWorker \/ DestroyStreamOff \/ DestroyDeallocate \/ DestroyClose
    \/ DeviceProcess \/ DeviceEvent

Spec == Init /\ [][Next]_vars

\* a capture driver as constructed from its arguments; its decoder does not
\* exist yet
InitCapturer ==
    /\ CodecNew /\ CapturerNew /\ HistoryNew /\ FrameNew /\ PlanesNew /\ LibcameraNew
    /\ UartNew
    /\ output_ = NewGroup("NONE", "MMAP") /\ capture_ = NewGroup("NONE", "MMAP")
    /\ hw_accel_ \in BOOLEAN /\ format_ \in Formats

\* the capture driver, a snapshot thread, the camera, and the decoder's worker
\* and device
NextCapturer ==
    \/ Initialize \/ StartCapture
    \/ CaptureTimeout \/ CaptureDequeue \/ CaptureDeliver \/ DecoderCreate
    \/ CaptureEmplace \/ CaptureRequeue
    \/ GetI420Frame \/ CameraFill
    \/ EmplacePop \/ EmplaceQueue \/ EmplacePush
    \/ WorkerTop \/ SelectNone \/ SelectReady \/ DequeueOutput \/ PushIndex
    \/ DequeueCapture \/ RunTask \/ RequeueCapture
    \/ DeviceProcess
    \/ CapturerStopWorker \/ DecoderAbort \/ StopWorker \/ DestroyStreamOff
    \/ DestroyDeallocate \/ DestroyClose \/ DecoderReset
    \/ CapturerStreamOff \/ CapturerDeallocate \/ CapturerClose

SpecCapturer == InitCapturer /\ [][NextCapturer]_vars

\* a frame buffer on its own: dequeued, cloned, queued again and overwritten
NextFrame ==
    \/ FrameDequeue \/ FrameRequeue \/ DeviceWrite \/ FrameClone
    \/ FrameCreate \/ CallMutableData

InitFrame ==
    /\ CodecNew /\ CapturerNew /\ HistoryNew /\ FrameNew /\ PlanesNew /\ LibcameraNew
    /\ UartNew
    /\ output_ = NewGroup("NONE", "MMAP") /\ capture_ = NewGroup("NONE", "MMAP")
    /\ hw_accel_ = FALSE /\ format_ = "YUV420"

SpecFrame == InitFrame /\ [][NextFrame]_vars

\* the plane bookkeeping of the two loops' dequeues
NextPlanes ==
    \/ PlaneInitialize \/ PlaneAllocate \/ PlaneCapture
    \/ CodecNegotiate \/ CodecDequeue

InitPlanes ==
    /\ CodecNew /\ CapturerNew /\ HistoryNew /\ FrameNew /\ PlanesNew /\ LibcameraNew
    /\ UartNew
    /\ output_ = NewGroup("NONE", "MMAP") /\ capture_ = NewGroup("NONE", "MMAP")
    /\ hw_accel_ = FALSE /\ format_ = "YUV420"

SpecPlanes == InitPlanes /\ [][NextPlanes]_vars

\* a capture driver without a decoder: its loop, and the camera
NextPoll ==
    \/ Initialize \/ StartCapture
    \/ CapturePoll \/ CaptureDequeue \/ CaptureDeliver \/ CaptureRequeue
    \/ CameraFill

InitPoll ==
    /\ CodecNew /\ CapturerNew /\ HistoryNew /\ FrameNew /\ PlanesNew /\ LibcameraNew
    /\ UartNew
    /\ output_ = NewGroup("NONE", "MMAP") /\ capture_ = NewGroup("NONE", "MMAP")
    /\ hw_accel_ = FALSE /\ format_ \in Formats

SpecPoll == InitPoll /\ [][NextPoll]_vars

\* InitBuffer on an opened device, with every request and capability set
NextInitBuffer == Open \/ CallInitBuffer

InitInitBuffer ==
    /\ CodecNew /\ CapturerNew /\ HistoryNew /\ FrameNew /\ PlanesNew /\ LibcameraNew
    /\ UartNew
    /\ output_ = NewGroup("NONE", "MMAP") /\ capture_ = NewGroup("NONE", "MMAP")
    /\ hw_accel_ = FALSE /\ format_ = "YUV420"

SpecInitBuffer == InitInitBuffer /\ [][NextInitBuffer]_vars

\* the libcamera capturer's control path
NextLibcamera == LcSetControls \/ CameraComplete \/ RcPublish \/ RcMerge \/ RcQueue

InitLibcamera ==
    /\ CodecNew /\ CapturerNew /\ HistoryNew /\ FrameNew /\ PlanesNew /\ LibcameraNew
    /\ UartNew
    /\ output_ = NewGroup("NONE", "MMAP") /\ capture_ = NewGroup("NONE", "MMAP")
    /\ hw_accel_ = FALSE /\ format_ = "YUV420"

SpecLibcamera == InitLibcamera /\ [][NextLibcamera]_vars

\* a UART controller: created, then SendCommand on two threads and Stop on a
\* third, in any interleaving
NextUart ==
    \/ UartInit
    \/ \E t \in Senders : SendCall(t)
    \/ \E t \in UartThreads : SendCheck(t)
    \/ \E t \in UartThreads : SendLock(t)
    \/ \E t \in UartThreads : SendWrite(t)
    \/ \E t \in UartThreads : SendUnlock(t)
    \/ StopCall \/ StopSleep \/ StopClose \/ StopClearFd \/ StopClearConnected

InitUart ==
    /\ CodecNew /\ CapturerNew /\ HistoryNew /\ FrameNew /\ PlanesNew /\ LibcameraNew
    /\ UartNew
    /\ output_ = NewGroup("NONE", "MMAP") /\ capture_ = NewGroup("NONE", "MMAP")
    /\ hw_accel_ = FALSE /\ format_ = "YUV420"

SpecUart == InitUart /\ [][NextUart]_vars

\* a device handle on its own: opened, then any operation in any order
NextHandle ==
    \/ Open
    \/ CallQueryCapabilities \/ CallSetFormat \/ CallSetControl
    \/ CallSubscribeEvent \/ CallStreamOn \/ CallStreamOff

InitHandle ==
    /\ CodecNew /\ CapturerNew /\ HistoryNew /\ FrameNew /\ PlanesNew /\ LibcameraNew
    /\ UartNew
    /\ output_ = NewGroup("OUTPUT_MPLANE", "MMAP")
    /\ capture_ = NewGroup("CAPTURE_MPLANE", "MMAP")
    /\ hw_accel_ = FALSE /\ format_ = "YUV420"

SpecHandle == InitHandle /\ [][NextHandle]_vars

(* ------------------------- codec pipeline claims ------------------------ *)
\* the callbacks invoked so far, by the marker of their submission
Markers(s) == [i \in 1..Len(s) |-> s[i].task]
TaskMarkers(q) == {q[i].m : i \in 1..Len(q)}
\* no device deviation so far, and no work item was completed while its
\* EmplaceBuffer call was still between VIDIOC_QBUF and the push
Clean == faults = 0 /\ ~early
\* nothing is in flight: no call in progress, the worker is waiting, the device
\* holds no work and no result
Quiescent ==
    /\ alive /\ started /\ ~abort_
    /\ epc = "idle" /\ wpc \in {"top", "select"}
    /\ devOut.queued = <<>> /\ devOut.done = <<>> /\ devCap.done = <<>>
    /\ events = <<>>

\* C1: when the accepted submissions are completed by the device in submission
\* order and every dequeue succeeds, the callbacks are invoked in the order of
\* submission, each at most once, each with the result of its own submission,
\* and once nothing is in flight every accepted submission's callback has run.
C1_CallbacksInSubmissionOrder ==
    /\ IsPrefix(Markers(invoked), accepted)
    /\ Clean => \A i \in 1..Len(invoked) : invoked[i].frame = invoked[i].task
    /\ (Clean /\ Quiescent) => Markers(invoked) = accepted
\* more submissions than the pool holds were accepted, completed and called back
C1_Witness ==
    /\ Clean /\ Quiescent
    /\ Len(accepted) > OutCount
    /\ Markers(invoked) = accepted

\* C2: an EmplaceBuffer call that finds the free pool empty returns at once and
\* changes nothing: no buffer is queued, no task is pushed, the pool and the
\* task queue are as before, and the refused submission's callback never runs.
C2_EmptyPoolNoOp ==
    [][/\ (epc = "pop" /\ output_buffer_index_ = <<>> /\ epc' # epc)
          => /\ epc' = "idle"
             /\ rejected' = rejected \cup {eTask.m}
             /\ UNCHANGED <<output_buffer_index_, capturing_tasks_, devOut, devCap,
                            accepted, invoked>>
       /\ rejected' \cap (Range(accepted') \cup Range(Markers(invoked'))
                          \cup TaskMarkers(capturing_tasks_')) = {}]_vars
\* submission pool-size+1 was refused before any completion was handled
C2_Witness ==
    /\ OutCount + 1 \in rejected
    /\ accepted = [i \in 1..OutCount |-> i]
    /\ invoked = <<>>
    /\ Len(devOut.queued) + Len(devOut.done) = OutCount

\* C3: under every interleaving of EmplaceBuffer and CaptureBuffer, a callback
\* is invoked with the result frame of its own submission.
C3_CallbackGetsOwnFrame ==
    faults = 0 => \A i \in 1..Len(invoked) : invoked[i].frame = invoked[i].task

\* C4: an AllocateBuffer call that succeeds was granted exactly the requested
\* number of buffers, which is also the group's buffer count.
C4_AllocationGrantedExactly ==
    lastAlloc.ok => /\ lastAlloc.granted = lastAlloc.requested
                    /\ lastAlloc.num_buffers = lastAlloc.requested

\* a step of HandleEvent that takes a source-change event
SourceChangeStep ==
    /\ wpc = "event" /\ events # <<>> /\ Head(events) = "SOURCE_CHANGE"
    /\ events' = Tail(events)

\* C7: handling a source-change event, with every ioctl answered as asked, runs
\* to completion and leaves the capture stream on with every buffer of the
\* reallocated capture group queued.
C7_SourceChangeResumes ==
    [][(SourceChangeStep /\ faults' = 0)
         => /\ alive' /\ handled' = "returned"
            /\ devCap'.streamOn
            /\ capture_'.num_buffers = capture_.num_buffers
            /\ Len(devCap'.queued) = capture_'.num_buffers]_vars

\* C8: handling a source-change event leaves the output group, the output
\* queue of the device, the free pool and the pending tasks as they were.
C8_SourceChangeOutputUntouched ==
    [][SourceChangeStep
         => UNCHANGED <<output_, devOut, output_buffer_index_, capturing_tasks_>>]_vars
\* a source change was handled while the output side held work and a task
C8_Witness ==
    /\ handled # "none"
    /\ devOut.streamOn
    /\ Len(devOut.queued) + Len(devOut.done) > 0
    /\ capturing_tasks_ # <<>>
    /\ output_buffer_index_ # <<>>

(* -------------------------- capture driver claims ----------------------- *)

\* C5: with hardware decode and H264 input, a dequeued buffer is forwarded to
\* the decoder exactly when it is a key-frame or a key-frame was dequeued
\* before it; buffers before the first key-frame are dropped.
C5_KeyframeBootstrap ==
    \A i \in 1..Len(seen) :
        seen[i].forwarded <=> (\E j \in 1..i : seen[j].key)

\* C6: between two iterations of the capture loop, when no ioctl has failed,
\* every buffer of the pool is with the device again (queued or filled).
C6_DequeuedBufferRequeued ==
    (alive /\ cpc = "select" /\ faults = 0)
        => Len(camQ.queued) + Len(camQ.done) = buffer_count_

\* C9: no captured frame is read after the buffer it borrows was queued to the
\* device again.
C9_NoReadAfterRequeue == staleReads = {}

\* C10: a decoded frame published to the subscribers carries the timestamp of
\* the captured buffer it was decoded from.
C10_DecodedFrameKeepsTimestamp ==
    (faults = 0 /\ ~early)
        => \A i \in 1..Len(published) :
               published[i].kind = "decoded"
                   => \/ published[i].frame.timestamp_ = published[i].ts
                      \/ GetRawBuffer(published[i].frame).timestamp = published[i].ts

(* --------------------- codec pipeline claims, continued ----------------- *)
\* capture buffers the device holds, waiting to be filled or filled
CaptureHeld == Len(devCap.queued) + Len(devCap.done)
\* the worker is between two iterations of CaptureBuffer
BetweenIterations == wpc \in {"top", "select", "event"}
\* the worker holds a dequeued capture buffer
HoldsCapture == wpc \in {"task", "q_cap"}

\* C11: while abort_ is not set and no ioctl has failed, an iteration that
\* dequeued a capture buffer queues it again before it ends, with or without a
\* pending callback: between iterations the device holds every capture buffer,
\* and within an iteration all but the one dequeued.
C11_CaptureBufferRequeued ==
    (alive /\ started /\ ~abort_ /\ faults = 0 /\ handled = "none"
       /\ capSetup = "true")
        => /\ BetweenIterations => CaptureHeld = CapCount
           /\ HoldsCapture => CaptureHeld = CapCount - 1
\* an iteration found no pending callback for its result and ended with the
\* buffer queued again
C11_Witness ==
    /\ alive /\ ~abort_ /\ faults = 0 /\ capSetup = "true"
    /\ early /\ invoked = <<>> /\ accepted # <<>>
    /\ devOut.queued = <<>> /\ devOut.done = <<>>
    /\ wpc = "top" /\ CaptureHeld = CapCount

\* C12: once abort_ is set, a worker that is at the top of its loop stays there
\* (or is joined), and a worker waiting in select() returns to the top when it
\* wakes: it goes on to no dequeue and to no event handling.
C12_AbortStopsWork ==
    [][(abort_ /\ wpc \in {"top", "select"})
         => /\ wpc' \in {"top", "stopped"} \/ wpc' = wpc
            /\ wpc = "top" => wpc' # "select"
            /\ abort_']_vars
\* abort_ is set, a result and an event are ready, and the worker is back at
\* the top of its loop having dequeued neither
C12_Witness ==
    /\ alive /\ abort_ /\ wpc = "top"
    /\ devCap.done # <<>> /\ events # <<>>

\* C13: Start() turns the streams on and starts the worker only when both
\* SetupOutputBuffer and SetupCaptureBuffer were called before.
C13_StartNeedsBothGroups ==
    (started \/ devOut.streamOn \/ devCap.streamOn)
        => (outSetup # "none" /\ capSetup # "none")

\* where the output indices are: the free pool, the device (queued or done),
\* the EmplaceBuffer call between pop and VIDIOC_QBUF, the worker between
\* VIDIOC_DQBUF and push
OutputPlaces ==
    output_buffer_index_
    \o [i \in 1..Len(devOut.queued) |-> devOut.queued[i].idx]
    \o devOut.done
    \o (IF epc = "queue" THEN <<eIdx>> ELSE <<>>)
    \o (IF wpc = "push_idx" THEN <<wIdx>> ELSE <<>>)
Occurrences(seq, x) == Cardinality({k \in 1..Len(seq) : seq[k] = x})

\* C14: from a successful SetupOutputBuffer until teardown, every output index
\* 0..count-1 is in exactly one place: once in the free pool, or with the
\* device, or in the hands of the call that moves it between the two.
C14_OutputIndexInOnePlace ==
    (outSetup = "true" /\ dpc \in {"none", "joined"})
        => /\ Len(OutputPlaces) = OutCount
           /\ \A i \in 0..(OutCount - 1) : Occurrences(OutputPlaces, i) = 1
\* a failed VIDIOC_QBUF of the output buffer and work in flight: the pool holds
\* one index, the device the other
C14_Witness ==
    /\ outSetup = "true" /\ faults > 0 /\ dpc = "none"
    /\ Len(accepted) > 0 /\ Len(accepted) + Cardinality(rejected) < nextMarker - 1
    /\ epc = "idle"
    /\ Len(output_buffer_index_) = 1 /\ Len(devOut.done) = 1

\* C15: a SetupOutputBuffer call that succeeds leaves no output buffer queued
\* and the free pool holding exactly 0..count-1, each once; a
\* SetupCaptureBuffer call that succeeds leaves all count capture buffers
\* queued to the device.
C15_SetupPlacesBuffers ==
    [][/\ (outSetup = "none" /\ outSetup' = "true")
          => /\ Len(output_buffer_index_') = OutCount
             /\ \A i \in 0..(OutCount - 1) : Occurrences(output_buffer_index_', i) = 1
             /\ devOut'.queued = <<>> /\ devOut'.done = <<>>
       /\ (capSetup = "none" /\ capSetup' = "true")
          => /\ Len(devCap'.queued) = CapCount
             /\ \A i \in 0..(CapCount - 1) : Occurrences(devCap'.queued, i) = 1
             /\ capture_'.num_buffers = CapCount]_vars
\* both groups are set up and nothing has been started
C15_Witness ==
    /\ outSetup = "true" /\ capSetup = "true" /\ ~started
    /\ Len(output_buffer_index_) = OutCount /\ devOut.queued = <<>>
    /\ Len(devCap.queued) = CapCount

\* C16: a SetupOutputBuffer call that failed -- which, for a memory-mapped
\* group, includes every allocation in which mapping a plane failed -- has
\* left no buffer of the output group mapped.
C16_FailedAllocationUnmapsAll ==
    (outSetup = "false" /\ dpc = "none") => output_.mapped = {}

\* C17: deallocating a group again closes no DMA file descriptor that an
\* earlier deallocation of the group has already closed.
C17_DeallocateIdempotent ==
    output_.reclosed = {} /\ capture_.reclosed = {}

\* the device has nothing left to process, nothing in EmplaceBuffer is under
\* way, and the worker cannot go on by itself: it is between iterations with
\* nothing readable, or it waits in VIDIOC_DQBUF for an output buffer
Drained ==
    /\ alive /\ started /\ ~abort_ /\ ~early /\ handled = "none" /\ events = <<>>
    /\ outSetup = "true" /\ capSetup = "true"
    /\ epc = "idle" /\ devOut.queued = <<>> /\ devOut.done = <<>>
    /\ \/ wpc \in {"top", "select"} /\ devCap.done = <<>>
       \/ wpc = "dq_out"

\* C19: a failed dequeue or queue call abandons only its own iteration: once
\* the device has processed everything and the worker has run the cycles it
\* can, no callback is left pending.
C19_FailureCostsOneIteration ==
    Drained => capturing_tasks_ = <<>>

\* C20: a setup call that asked for a width and height and returned true left
\* the device at exactly that geometry: SetFormat did not return true for any
\* other geometry the device answered.
C20_GeometryMismatchIsFatal ==
    /\ outSetup = "true" => devOut.geom = ReqGeom
    /\ (capSetup = "true" /\ handled = "none") => devCap.geom = ReqGeom
    /\ (alive /\ handled = "none") => (devOut.geom # AdjGeom /\ devCap.geom # AdjGeom)
\* the device answered a setup call with another geometry and the call threw
C20_Witness ==
    /\ ~alive /\ outSetup = "true" /\ capSetup = "throw"
    /\ devOut.geom = ReqGeom /\ devCap.geom = AdjGeom

(* ------------------------------ teardown claims -------------------------- *)
\* the order in which a destructor completes its steps
TeardownOrder ==
    {<<"none", "joined">>, <<"joined", "off">>, <<"off", "dealloc">>,
     <<"dealloc", "closed">>}
CapturerTeardownOrder ==
    {<<"none", "joined">>, <<"joined", "decoder">>, <<"decoder", "off">>,
     <<"off", "dealloc">>, <<"dealloc", "closed">>}
\* what holds of the codec once its destructor has completed a step
CodecTeardownSafe ==
    /\ dpc # "none" => wpc = "stopped"
    /\ (dpc \in {"dealloc", "closed"} /\ faults = 0)
         => (~devOut.streamOn /\ ~devCap.streamOn)
    /\ (dpc = "closed" /\ faults = 0)
         => /\ output_.mapped = {} /\ capture_.mapped = {}
            /\ devOut.granted = 0 /\ devCap.granted = 0
\* what holds of the capture driver once its destructor has completed a step
CapturerTeardownSafe ==
    /\ cdpc # "none" => cpc = "stopped"
    /\ cdpc \in {"decoder", "off", "dealloc", "closed"} => ~decoder_
    /\ (cdpc \in {"dealloc", "closed"} /\ faults = 0) => ~camQ.streamOn
    /\ (cdpc = "closed" /\ faults = 0) => (cam_capture_.mapped = {} /\ camQ.granted = 0)

EosObserved == ~alive /\ wpc = "event" /\ handled # "threw"

\* C21: the step in which the codec's handler dequeues an end-of-stream event
\* ends the process, and once the process has ended no callback is invoked,
\* no buffer is queued to either queue and no event is dequeued.
C21_EndOfStreamIsFatal ==
    [][/\ (wpc = "event" /\ events # <<>> /\ Head(events) = "EOS"
           /\ events' = Tail(events)) => ~alive'
       /\ ~alive => /\ invoked' = invoked /\ published' = published
                    /\ devOut'.queued = devOut.queued
                    /\ devCap'.queued = devCap.queued
                    /\ events' = events]_vars
\* end of stream arrived while a callback was pending and a result was ready
C21_Witness ==
    EosObserved /\ capturing_tasks_ # <<>> /\ devCap.done # <<>>

(* ------------------------- capture driver claims, continued -------------- *)
\* C22: whichever control and frame-rate calls fail in Initialize, when the
\* device opens and answers every other call Initialize ends with the process
\* alive and the format negotiated, and StartCapture then maps every buffer,
\* queues them all and turns the stream on.
C22_ControlFailureNotFatal ==
    [][/\ (~cam_fd_ /\ cam_fd_' /\ faults' = 0)
            => /\ alive'
               /\ camQ'.geom = ReqGeom /\ cam_capture_'.type = "VIDEO_CAPTURE"
       /\ (cam_fd_ /\ cpc = "none" /\ cam_capture_' # cam_capture_ /\ faults' = 0)
            => /\ alive' /\ cpc' = "select"
               /\ cam_capture_'.mapped = 0..(buffer_count_ - 1)
               /\ Len(camQ'.queued) = buffer_count_ /\ camQ'.streamOn]_vars
\* every control call of an H264 camera failed, and frames are flowing
C22_Witness ==
    /\ ctrlFailed = {"fps", "ctrl", "ext"} /\ alive /\ cpc = "select"
    /\ camQ.streamOn /\ published # <<>>

(* ---------------------------- device handle claims ----------------------- *)
\* the number of times request r occurs among the calls issued
TimesIssued(r) == Cardinality({k \in 1..Len(issued.calls) : issued.calls[k] = r})

\* C23 (as stated): every Device Handle operation issues exactly one
\* device-control call per invocation.
C23_ExactlyOneCall ==
    issued.op # "none" => Len(issued.calls) = 1

\* C23 (amended): every Device Handle operation issues each of its
\* device-control calls exactly once, also when the device refuses it; that is
\* one call for every operation but format negotiation, which issues a
\* VIDIOC_G_FMT and then one VIDIOC_S_FMT.
C23_NoCallRepeated ==
    issued.op # "none"
        => /\ \A r \in Range(issued.calls) : TimesIssued(r) = 1
           /\ IF issued.op = "SetFormat"
              THEN issued.calls = <<"VIDIOC_G_FMT", "VIDIOC_S_FMT">>
              ELSE Len(issued.calls) = 1
\* a stream-on the device refused, on a device that had accepted a format
C23_Witness ==
    /\ issued.op = "StreamOn" /\ ~issued.ok /\ ~devCap.streamOn
    /\ devCap.geom = ReqGeom

(* ------------------------- frame buffer claims --------------------------- *)

\* C24: a clone owns its bytes: whatever happens to the backing buffer after
\* Clone() (queued again, overwritten by the device, dequeued into a new
\* frame), the clone's bytes, size, flags and timestamp stay what the original
\* exposed when it was cloned.
C24_CloneOwnsItsBytes ==
    fbClone # NoFrameBuffer
        => /\ fbClone.owns
           /\ Exposed(fbClone, fbMem) = fbCloned

\* a clone of a two-byte key-frame whose backing buffer has since been queued
\* again and overwritten
C24_Witness ==
    /\ fbClone # NoFrameBuffer /\ fbCloned.size = MaxBytes /\ fbCloned.flags = KeyFlag
    /\ fbQueued /\ fbMem # fbCloned.bytes
    /\ Exposed(fbFrame, fbMem) # fbCloned

(* ------------------------- multi-planar claims --------------------------- *)

\* C25: the frame the capture driver publishes from a multi-planar group with
\* P planes carries, for every plane p < P, the mapped address of plane p of
\* the dequeued buffer and the bytes-used the device reported for plane p.
C25_PublishedPlanes ==
    (dqReq.by = "CaptureImage" /\ IsMultiplanar(mpCam.type))
        => \A p \in 1..mpCam.num_planes :
              /\ mpFrame.plane_start[p] = Addr(mpReport.idx, p)
              /\ mpFrame.plane_bytesused[p] = mpReport.bytesused[p]

\* a three-plane frame from buffer 1 whose planes carry different byte counts
C25_Witness ==
    /\ dqReq.by = "CaptureImage" /\ mpCam.type = "CAPTURE_MPLANE"
    /\ mpCam.num_planes = VideoMaxPlanes /\ mpReport.idx = 1
    /\ mpFrame.plane_bytesused = <<1, 2, 1>>
    /\ mpFrame.plane_start = <<Addr(1, 1), Addr(1, 2), Addr(1, 3)>>

\* C29: every dequeue on a multi-planar group declares no more planes than the
\* plane descriptors it carries, in the capture driver's loop and in both
\* dequeues of the codec's loop.
C29_DeclaredWithinProvided ==
    dqReq.by # "none" => dqReq.declared <= dqReq.provided

\* the capture driver's dequeues alone keep within their descriptors
C29_CaptureImageWithinProvided ==
    dqReq.by = "CaptureImage" => dqReq.declared <= dqReq.provided

(* -------------------------- allocation claims ---------------------------- *)

\* C26: when SetupCaptureBuffer reaches AllocateBuffer for a memory-mapped
\* group that exports DMA descriptors and not every buffer ends up exported,
\* AllocateBuffer returned false and the setup reports failure; so no such
\* group is reported set up with only some of its buffers exported.
C26_ExportFailureFailsAllocation ==
    [][(/\ capSetup = "none" /\ capSetup' # "none"
        /\ capture_'.has_dmafd /\ capture_'.memory = "MMAP"
        /\ capture_'.num_buffers = CapCount
        /\ capture_'.exported # 0..(CapCount - 1))
          => /\ ~lastAlloc'.ok /\ lastAlloc'.requested = CapCount
             /\ capSetup' = "false"]_vars

\* the export of the second buffer failed after the first was exported
C26_Witness ==
    /\ capSetup = "false" /\ capture_.has_dmafd /\ capture_.memory = "MMAP"
    /\ capture_.num_buffers = CapCount /\ capture_.exported = {0}
    /\ ~lastAlloc.ok /\ lastAlloc.granted = CapCount

(* ------------------------ completion loop claims ------------------------- *)

\* the worker is in the data path of an iteration
InDataPath == wpc \in {"dq_out", "push_idx", "dq_cap", "task", "q_cap"}

\* C27: an iteration of the codec's loop whose select() reported an exception
\* on the descriptor does not end, short of an abort, before the pending
\* events were handled -- not even when one of its dequeues fails.
C27_ExceptionHandledSameIteration ==
    [][(InDataPath /\ wex /\ ~abort_) => wpc' # "top"]_vars

\* without a failing device call such an iteration does reach the events
C27_HandledWhenNothingFails ==
    [][(InDataPath /\ wex /\ ~abort_ /\ faults' = faults) => wpc' # "top"]_vars

\* C28: the completion callback is called with the result frame, and returns,
\* while the capture buffer behind the frame is still out of the device; the
\* buffer goes back to the device only in the step after the callback.
C28_CallbackBeforeRequeue ==
    [][/\ invoked' # invoked
          => /\ wpc = "task" /\ wpc' = "q_cap"
             /\ invoked' = Append(invoked, [task |-> Head(capturing_tasks_).m,
                                            frame |-> wFrame.src])
             /\ wFrame.idx \notin Range(devCap.queued)
             /\ wFrame.idx \notin Range(devCap'.queued)
       /\ (InDataPath /\ Len(devCap'.queued) > Len(devCap.queued))
          => /\ wpc = "q_cap"
             /\ devCap'.queued = Append(devCap.queued, wFrame.idx)]_vars

\* a callback has run and its frame's buffer is back with the device
C28_Witness ==
    /\ invoked # <<>> /\ wpc = "top" /\ wFrame = NoFrame /\ faults = 0
    /\ Len(devCap.queued) = CapCount /\ devCap.done = <<>> /\ Len(accepted) = 1

(* --------------------- capture driver loop claims ------------------------ *)

\* C30: a CaptureImage call whose select() timed out or failed dequeues
\* nothing, publishes nothing and queues nothing: the device's queue, the
\* retained frame and the list of published frames are as before, and the
\* worker is back at select().
C30_IdleIterationChangesNothing ==
    [][waits' # waits
          => /\ cpc = "select" /\ cpc' = "select"
             /\ camQ' = camQ /\ cam_capture_' = cam_capture_
             /\ frame_buffer_' = frame_buffer_ /\ cBuffer' = cBuffer
             /\ published' = published
             /\ alive']_vars

\* the wait failed and then timed out after a frame was captured and
\* published and its buffer handed back to the camera
C30_Witness ==
    /\ waits = <<"failed", "timeout">>
    /\ frame_buffer_ # NoFrame /\ published # <<>>
    /\ Len(camQ.queued) = buffer_count_ /\ cpc = "select"

(* -------------------------- buffer count claims -------------------------- *)

\* C31: once the pipeline is started no step changes the number of buffer
\* descriptors of either group, and a source-change reallocation leaves the
\* capture group with the buffer count it had before, whatever the device
\* answers.
C31_BufferCountFixed ==
    [][/\ started => /\ output_'.num_buffers = output_.num_buffers
                     /\ output_'.size = output_.size
                     /\ capture_'.num_buffers = capture_.num_buffers
                     /\ capture_'.size = capture_.size
       /\ SourceChangeStep => /\ capture_'.num_buffers = capture_.num_buffers
                              /\ capture_'.size = capture_.size]_vars

\* a source change was handled on an allocated capture group and frames
\* were completed around it
C31_Witness ==
    /\ handled = "returned" /\ started /\ capSetup = "true"
    /\ capture_.num_buffers = CapCount /\ capture_.size = CapCount
    /\ lastAlloc.requested = CapCount /\ invoked # <<>>

(* --------------------------- InitBuffer claims --------------------------- *)

\* C32: on a device that reports multi-planar capability InitBuffer stores
\* the multi-planar type for a plain capture or plain output request; a
\* request that is already multi-planar, and any request on a device without
\* that capability, is stored as requested.
C32_MultiplanarUpgrade ==
    (initReq.type # "none" /\ initReq.capOk)
        => LET mp == IsMultiPlaneVideo(initReq.caps)
           IN  /\ (mp /\ initReq.type = "VIDEO_CAPTURE") => capture_.type = "CAPTURE_MPLANE"
               /\ (mp /\ initReq.type = "VIDEO_OUTPUT") => capture_.type = "OUTPUT_MPLANE"
               /\ (~mp \/ IsMultiplanar(initReq.type)) => capture_.type = initReq.type

\* a plain capture request on a streaming multi-planar capture device
C32_Witness ==
    /\ initReq.type = "VIDEO_CAPTURE" /\ initReq.capOk
    /\ initReq.caps = {"VIDEO_CAPTURE_MPLANE", "STREAMING"}
    /\ capture_.type = "CAPTURE_MPLANE" /\ capture_.fd = 1

(* ---------------------- libcamera capturer claims ------------------------ *)

\* C33 as stated: a control set with SetControls is in the next request that
\* is queued again after the call -- so no request is queued again while an
\* update is waiting to be merged.
C33_MergedIntoNextQueued ==
    [][(rcpc = "queue" /\ rcpc' = "idle") => ~is_controls_updated_]_vars

\* C33, amended: a control update is merged into the request whose
\* RequestComplete call next takes the control lock after SetControls; the
\* merge writes the whole control list into that request and into no request
\* that is queued to the camera, the flag is cleared only by a merge, and
\* whenever the flag is clear every update made so far has been merged.
C33_MergedAtNextLock ==
    [][/\ (rcpc = "merge" /\ rcpc' = "queue" /\ is_controls_updated_)
            => /\ requests_'[rcReq].controls = controls_
               /\ ~is_controls_updated_'
       /\ (is_controls_updated_ /\ ~is_controls_updated_')
            => /\ rcpc = "merge"
               /\ requests_'[rcReq].controls = controls_
               /\ merged' = controls_
       /\ \A r \in 1..RequestCount :
            requests_[r].state = "queued"
                => requests_'[r].controls = requests_[r].controls
       /\ controls_' # controls_ => is_controls_updated_'
       /\ ~is_controls_updated_' => merged' = controls_']_vars

\* two controls were set at different times: request 2 was queued with the
\* first alone, request 1 with both
C33_Witness ==
    /\ nSets = MaxSets /\ ~is_controls_updated_
    /\ controls_ = [k \in CtrlKeys |-> k]
    /\ requests_[1].state = "queued" /\ requests_[1].controls = controls_
    /\ requests_[2].state = "queued"
    /\ requests_[2].controls = [NoControls EXCEPT ![1] = 1]

(* ----------------------- pending-task queue claims ----------------------- *)
\* output buffers the device holds, waiting to be processed or processed
OutputInFlight == Len(devOut.queued) + Len(devOut.done)
\* no EmplaceBuffer call is under way and the worker is between iterations
AtRest == epc = "idle" /\ wpc \in {"top", "select"}

\* C34: with no call under way, the pending-task queue holds no more
\* callbacks than output buffers are in flight at the device, and so no more
\* than the output pool has buffers -- also after failed dequeues.
C34_TasksWithinInFlight ==
    (AtRest /\ ~abort_ /\ outSetup = "true" /\ capSetup = "true")
        => /\ Len(capturing_tasks_) <= OutputInFlight
           /\ Len(capturing_tasks_) <= OutCount

\* the pool size alone as the bound
C34_TasksWithinPool ==
    (AtRest /\ ~abort_ /\ outSetup = "true" /\ capSetup = "true")
        => Len(capturing_tasks_) <= OutCount

\* the same bound while no device call has failed
C34_TasksWithinInFlightNoFault ==
    (AtRest /\ ~abort_ /\ outSetup = "true" /\ capSetup = "true" /\ Clean
     /\ handled = "none")
        => /\ Len(capturing_tasks_) <= OutputInFlight
           /\ Len(capturing_tasks_) <= OutCount

(* ---------------------------- DMA export claims -------------------------- *)
\* the capture group was set up with DMA export
ExportedSetup == capSetup = "true" /\ capture_.exported # {}

C35_NoFrameAfterReallocation ==
    [][invoked' # invoked => handled = "none"]_vars

\* after a source change every descriptor of the exporting group is open
C35_DescriptorsOpenAfterReallocation ==
    (ExportedSetup /\ handled = "returned" /\ dpc = "none")
        => \A i \in 0..(capture_.num_buffers - 1) : DmaFd(capture_, i) \in OpenFds(capture_)

(* ------------------------ failed submission claims ----------------------- *)
\* the submissions whose VIDIOC_QBUF failed: the call has returned, the
\* marker was neither accepted by the device nor refused for an empty pool
FailedSubmissions ==
    {m \in 1..(nextMarker - 1) :
        m \notin Range(accepted) /\ m \notin rejected /\ eTask.m # m}

\* C36: when VIDIOC_QBUF of the output buffer fails in EmplaceBuffer, the
\* call puts the index it took back into the free pool (which did not hold
\* it meanwhile), leaves the pending-task queue as it was, and its callback
\* is neither pending nor ever called.
C36_QueueFailureRolledBack ==
    [][/\ (epc = "queue" /\ epc' = "idle")
            => /\ output_buffer_index_' = QPush(output_buffer_index_, eIdx)
               /\ eIdx \notin Range(output_buffer_index_)
               /\ capturing_tasks_' = capturing_tasks_
               /\ eTask.m \notin TaskMarkers(capturing_tasks_')
               /\ invoked' = invoked
       /\ \A m \in FailedSubmissions :
            /\ m \notin TaskMarkers(capturing_tasks_)
            /\ \A i \in 1..Len(invoked) : invoked[i].task # m]_vars

\* the first submission failed at VIDIOC_QBUF and returned; a later one was
\* accepted and its callback called; the pool holds every index again
C36_Witness ==
    /\ 1 \in FailedSubmissions /\ epc = "idle"
    /\ output_buffer_index_ = <<1, 0>>
    /\ capturing_tasks_ = <<>>
    /\ accepted = <<2>> /\ Len(invoked) = 1 /\ invoked[1].task = 2

\* after a failed VIDIOC_QBUF the free pool is the sequence it was when the
\* call took its index
C36_PoolOrderRestored ==
    [][(epc = "queue" /\ epc' = "idle")
          => output_buffer_index_' = <<eIdx>> \o output_buffer_index_]_vars

(* -------------------------- UART controller claims ----------------------- *)
\* no write() so far went to the port's descriptor after it was closed
NoWriteToClosedPort ==
    \A i \in 1..Len(written) : written[i].port # "closed"
\* no write() so far was made by a SendCommand call that began after a Stop
\* had returned
NoWriteAfterStop ==
    \A i \in 1..Len(written) : ~written[i].after
\* the running Stop has written the zero command
StopHasWrittenZero ==
    \E i \in 1..Len(written) :
        /\ written[i].by = Stopper /\ written[i].stop = stops
        /\ written[i].cmd = StopCommand

\* C38: under any interleaving of SendCommand and Stop no command is written
\* to a descriptor of the port that is not open; a Stop that found the
\* controller connected has written the zero command when it closes the port;
\* a SendCommand that began after a Stop returned writes nothing.
C38_UartSafe ==
    [][/\ NoWriteToClosedPort'
       /\ (upc[Stopper] = "close" /\ upc'[Stopper] = "clear_fd" /\ usaw)
             => StopHasWrittenZero
       /\ NoWriteAfterStop']_vars

\* C38, the part about Stop and about calls after it: a Stop that found the
\* controller connected writes the zero command to the open port before it
\* closes it, and a SendCommand that began after a Stop returned writes nothing
C38_StopWritesZeroThenSilence ==
    [][/\ (upc[Stopper] = "close" /\ upc'[Stopper] = "clear_fd" /\ usaw)
             => /\ StopHasWrittenZero
                /\ \A i \in 1..Len(written) :
                     written[i].by = Stopper => written[i].port = "open"
       /\ NoWriteAfterStop']_vars

\* a Stop has returned after writing the zero command and closing the port,
\* and a later SendCommand returned without a write
C38_Witness ==
    /\ stops = 1 /\ uport = "closed" /\ ~connected_ /\ uart_fd_ = -1
    /\ nSends = MaxSends /\ \E t \in Senders : uafter[t] /\ upc[t] = "idle"
    /\ \E i \in 1..Len(written) : written[i].by = Stopper /\ written[i].cmd = StopCommand
    /\ NoWriteAfterStop

(* ------------------------------ Start claims ----------------------------- *)
\* C37: Start() turns the streams on and starts the worker only if
\* SetupOutputBuffer and SetupCaptureBuffer both returned true; a setup that
\* failed after the group type was recorded does not count.
C37_StartNeedsSuccessfulSetup ==
    [][(~started /\ started') => (outSetup = "true" /\ capSetup = "true")]_vars

\* C37 for codecs on which both setup calls were made: Start() goes on only if
\* both returned true
C37_FailedSetupDoesNotCount ==
    [][(~started /\ started' /\ outSetup # "none" /\ capSetup # "none")
          => (outSetup = "true" /\ capSetup = "true")]_vars

\* with both setup calls made, Start() goes on only if both recorded their
\* group type
C37_StartNeedsBothTypes ==
    [][(~started /\ started' /\ outSetup # "none" /\ capSetup # "none")
          => (output_.type = "OUTPUT_MPLANE" /\ capture_.type = "CAPTURE_MPLANE")]_vars

(* ---------------------------- MutableData claims ------------------------- *)
\* C39: MutableData() on a frame created from a buffer descriptor fails and
\* returns no block; on a frame created with a size, or produced by Clone(),
\* it succeeds and returns the frame's own block.
C39_MutableDataByOrigin ==
    fbCall.op = "MutableData"
        => IF fbCall.origin = "descriptor"
           THEN ~fbCall.ok /\ fbCall.block = <<>>
           ELSE fbCall.ok /\ Len(fbCall.block) = fbCall.size

\* C39 without the frames created with size 0: MutableData() fails on a frame
\* created from a descriptor, and succeeds with the own block on a clone and on
\* a frame created with a size above 0
C39_MutableDataNonEmpty ==
    (fbCall.op = "MutableData" /\ ~(fbCall.origin = "size" /\ fbCall.size = 0))
        => IF fbCall.origin = "descriptor"
           THEN ~fbCall.ok /\ fbCall.block = <<>>
           ELSE fbCall.ok /\ Len(fbCall.block) = fbCall.size

\* Clone() returns a clone for every frame
C39_CloneAlwaysReturns ==
    fbCall.op = "Clone" => fbCall.ok

====
